---- MODULE Spec2Model ----
(***************************************************************************)
(* A model of packer-plugin-podman's builder core:                         *)
(*   - the Communicator (builder/podman/communicator.go): remote commands  *)
(*     started by Start and executed by the run goroutine under            *)
(*     Communicator.lock, their stdio copy tasks, and the engine copy      *)
(*     subprocess of Upload / UploadDir / Download;                        *)
(*   - the step pipeline: StepPull, StepRun, StepConnectPodman and the     *)
(*     export step, driven by the multistep runner.                        *)
(***************************************************************************)
EXTENDS Integers, Sequences, FiniteSets, TLC

\* ------------------------------------------------------------------ bounds
\* Number of remote commands submitted to one Communicator.
NumCmds == 2
\* Bytes a process writes to one captured stream before it stops writing.
MaxOut == 2
\* Capacity of an OS pipe, in bytes.
PipeCap == 1
\* Number of Upload / UploadDir / Download calls made on the Communicator.
MaxTransfers == 1
\* Calls of step methods made by a direct caller.
MaxStepCalls == 3
\* Length of the byte content given to Upload.
MaxLen == 1
\* Upload / UploadDir / Download / DownloadDir calls whose data is followed.
MaxCopyOps == 2

\* -------------------------------------------------------------- constants
\* remote.SetExited(254) when cmd.Start fails.
SpawnFailedStatus == 254

\* The last element of a non-empty sequence.
Last(s) == s[Len(s)]

Cmds == 1..NumCmds
Streams == {"stdout", "stderr"}
TransferOps == {"Upload", "UploadDir", "Download"}

\* What the engine exec process can end with: a normal exit with a code, or
\* termination by a signal.
ExitCodes == {0, 2}
ProcResults ==
    [kind : {"exit"}, code : ExitCodes] \cup [kind : {"signal"}, code : {9}]
NoResult == [kind |-> "none", code |-> 0]

\* What cmd.Wait returns: nil, an *exec.ExitError carrying the platform's
\* wait status (sys = TRUE) or not (sys = FALSE), or an error of another type.
WaitErr(kind, exited, code, sys) ==
    [kind |-> kind, exited |-> exited, code |-> code, sys |-> sys]

VARIABLES
    \* ---- Communicator
    lock,        \* Communicator.lock: 0 when free, else the command whose run holds it
    startRet,    \* per command: "idle", "called" (caller inside Start), "nil", "err"
    pipeFailed,  \* per command: whether one of Start's three pipe set-ups failed
    remote,      \* per command: which of Stdin/Stdout/Stderr run found in its RemoteCmd
    pc,          \* per command: position of its run goroutine
    proc,        \* per command: the engine exec process, [state, res]
    wg,          \* per command: the sync.WaitGroup counter of run
    copyTask,    \* per command and stream: the repeat goroutine
    stdinTask,   \* per command: the stdin copy goroutine
    pipe,        \* per command and stream: bytes in the process's output pipe
    copied,      \* per command and stream: bytes io.Copy has written to the caller's sink
    undelivered, \* per command and captured stream: bytes the process wrote that are
                 \* not (yet) in the caller's sink
    exits,       \* per command: the statuses passed to remote.SetExited, in order
    \* ---- Upload / UploadDir / Download
    xferOp,      \* the transfer operation in progress, or "none"
    xferPc,      \* its position
    copyProc,    \* the engine copy subprocess of the transfer
    xferCount,   \* transfers called so far
    fs,          \* the container's file tree: path (sequence of names) -> node
    payload,     \* the byte content the caller uploads
    meta,        \* the *os.FileInfo the caller gives to Upload, or NoMeta (nil)
    xfer,        \* the last transfer that returned: what it was given, the
                 \* engine command it started, its error, the bytes it wrote
                 \* to the caller's writer
    nOps,        \* transfers returned so far
    ccfg,        \* the Communicator's Config.FixUploadOwner and ContainerUser
    \* ---- the step pipeline
    steps,       \* the pipeline: the sequence of steps handed to the runner
    config,      \* the Config in the bag: [Pull, Login]
    runnerPc,    \* the runner: "idle", "run", "cleanup", "done"
    idx,         \* the step whose Run is next (1-based)
    cidx,        \* the step whose Cleanup is next
    runLog,      \* the steps whose Run was executed, in order
    actions,     \* the StepAction each executed Run returned, in order
    cleanupLog,  \* the indices of the steps whose Cleanup was invoked, in order
    cleanupErrs, \* the indices of the steps whose Cleanup met a failure
    bag,         \* the StateBag: error, container_id, instance_id, communicator
    containerId, \* StepRun.containerId
    driver,      \* the calls the Driver received
    uiErrors,    \* number of ui.Error calls
    exportFile,  \* the host file at config.ExportPath: Nil when there is
                 \* none, else its bytes
    \* ---- Config.Prepare
    raws,        \* the raw configuration given to Prepare
    prepared     \* what Prepare returned, or NotPrepared

commVars == <<lock, startRet, pipeFailed, remote, pc, proc, wg, copyTask,
              stdinTask, pipe, copied, undelivered, exits>>
dataVars == <<fs, payload, meta, xfer, nOps, ccfg>>
xferVars == <<xferOp, xferPc, copyProc, xferCount, dataVars>>
pipeVars == <<steps, config, runnerPc, idx, cidx, runLog, actions, cleanupLog,
              cleanupErrs, bag, containerId, driver, uiErrors, exportFile>>
prepVars == <<raws, prepared>>
otherVars == <<xferVars, pipeVars, prepVars>>
vars == <<commVars, xferVars, pipeVars, prepVars>>

\* ---------------------------------------------------------- Communicator

NoStreams == [stdin |-> FALSE, stdout |-> FALSE, stderr |-> FALSE]
RemoteCmds == [stdin : BOOLEAN, stdout : BOOLEAN, stderr : BOOLEAN]
Wants(c, s) == IF s = "stdout" THEN remote[c].stdout ELSE remote[c].stderr
NoBytes == [s \in Streams |-> 0]

InitComm ==
    /\ lock = 0
    /\ startRet = [c \in Cmds |-> "idle"]
    /\ pipeFailed = [c \in Cmds |-> FALSE]
    /\ remote = [c \in Cmds |-> NoStreams]
    /\ pc = [c \in Cmds |-> "none"]
    /\ proc = [c \in Cmds |-> [state |-> "none", res |-> NoResult]]
    /\ wg = [c \in Cmds |-> 0]
    /\ copyTask = [c \in Cmds |-> [s \in Streams |-> "none"]]
    /\ stdinTask = [c \in Cmds |-> "none"]
    /\ pipe = [c \in Cmds |-> NoBytes]
    /\ copied = [c \in Cmds |-> NoBytes]
    /\ undelivered = [c \in Cmds |-> NoBytes]
    /\ exits = [c \in Cmds |-> <<>>]

InitXfer ==
    /\ xferOp = "none"
    /\ xferPc = "idle"
    /\ copyProc = "none"
    /\ xferCount = 0

\* The caller enters Start with a RemoteCmd. The provisioning code submits
\* its commands one after the other.
StartCall(c) ==
    /\ startRet[c] = "idle"
    /\ \A d \in Cmds : d < c => startRet[d] \in {"nil", "err"}
    /\ startRet' = [startRet EXCEPT ![c] = "called"]
    /\ UNCHANGED <<lock, remote, pc, proc, wg, copyTask, stdinTask, pipe, copied,
                   undelivered, exits, pipeFailed, otherVars>>

\* StartReturn with a bug: Start takes Communicator.lock itself before it
\* returns.
StartReturn_TakesLock(c) ==
    /\ startRet[c] = "called"
    /\ lock = 0
    /\ \E failed \in {"none", "stdin", "stderr", "stdout"} :
           /\ pipeFailed' = [pipeFailed EXCEPT ![c] = (failed # "none")]
           /\ IF failed # "none"
              THEN /\ startRet' = [startRet EXCEPT ![c] = "err"]
                   /\ pc' = pc
                   /\ lock' = lock
              ELSE /\ startRet' = [startRet EXCEPT ![c] = "nil"]
                   /\ pc' = [pc EXCEPT ![c] = "fork"]
                   /\ lock' = c
    /\ UNCHANGED <<remote, proc, wg, copyTask, stdinTask, pipe, copied,
                   undelivered, exits, otherVars>>

\* StartReturn with a bug: a failed pipe set-up is not returned; run is
\* started and nil returned all the same.
StartReturn_IgnoresPipeError(c) ==
    /\ startRet[c] = "called"
    /\ \E failed \in {"none", "stdin", "stderr", "stdout"} :
           /\ pipeFailed' = [pipeFailed EXCEPT ![c] = (failed # "none")]
           /\ startRet' = [startRet EXCEPT ![c] = "nil"]
           /\ pc' = [pc EXCEPT ![c] = "lock"]
    /\ UNCHANGED <<lock, remote, proc, wg, copyTask, stdinTask, pipe, copied,
                   undelivered, exits, otherVars>>

\* Start: the three pipes are set up (StdinPipe, StderrPipe, StdoutPipe); a
\* failure of any of them is returned; otherwise run is started as a goroutine
\* and nil is returned.
StartReturn(c) ==
    /\ startRet[c] = "called"
    /\ \E failed \in {"none", "stdin", "stderr", "stdout"} :
           /\ pipeFailed' = [pipeFailed EXCEPT ![c] = (failed # "none")]
           /\ IF failed # "none"
              THEN /\ startRet' = [startRet EXCEPT ![c] = "err"]
                   /\ pc' = pc
              ELSE /\ startRet' = [startRet EXCEPT ![c] = "nil"]
                   /\ pc' = [pc EXCEPT ![c] = "lock"]
    /\ UNCHANGED <<lock, remote, proc, wg, copyTask, stdinTask, pipe, copied,
                   undelivered, exits, otherVars>>

\* RunLock with a bug: run does not wait for the lock to be free.
RunLock_NoMutex(c) ==
    /\ pc[c] = "lock"
    /\ lock' = c
    /\ pc' = [pc EXCEPT ![c] = "fork"]
    /\ UNCHANGED <<startRet, remote, proc, wg, copyTask, stdinTask, pipe, copied,
                   undelivered, exits, pipeFailed, otherVars>>

\* run: c.lock.Lock()
RunLock(c) ==
    /\ pc[c] = "lock"
    /\ lock = 0
    /\ lock' = c
    /\ pc' = [pc EXCEPT ![c] = "fork"]
    /\ UNCHANGED <<startRet, remote, proc, wg, copyTask, stdinTask, pipe, copied,
                   undelivered, exits, pipeFailed, otherVars>>

\* run: for each of Stdout, Stderr the RemoteCmd supplies: wg.Add(1); go repeat(...)
\* The RemoteCmd the caller passed to Start is any of RemoteCmds; run is the
\* first to read its streams, so they are drawn here.
RunFork(c) ==
    /\ pc[c] = "fork"
    /\ \E r \in RemoteCmds :
           /\ remote' = [remote EXCEPT ![c] = r]
           /\ copyTask' = [copyTask EXCEPT ![c] =
                  [s \in Streams |->
                      IF (IF s = "stdout" THEN r.stdout ELSE r.stderr)
                      THEN "copying" ELSE "none"]]
           /\ wg' = [wg EXCEPT ![c] =
                  (IF r.stdout THEN 1 ELSE 0) + (IF r.stderr THEN 1 ELSE 0)]
    /\ pc' = [pc EXCEPT ![c] = "spawn"]
    /\ UNCHANGED <<lock, startRet, proc, stdinTask, pipe, copied,
                   undelivered, exits, pipeFailed, otherVars>>

\* RunSpawn with a bug: when cmd.Start fails run returns without SetExited.
RunSpawn_NoExitOnFailure(c) ==
    /\ pc[c] = "spawn"
    /\ \E ok \in BOOLEAN :
           IF ok
           THEN /\ proc' = [proc EXCEPT ![c].state = "running"]
                /\ stdinTask' = [stdinTask EXCEPT ![c] =
                       IF remote[c].stdin THEN "copying" ELSE "none"]
                /\ pc' = [pc EXCEPT ![c] = "wgwait"]
           ELSE /\ proc' = [proc EXCEPT ![c].state = "spawnfail"]
                /\ stdinTask' = stdinTask
                /\ pc' = [pc EXCEPT ![c] = "unlock"]
    /\ UNCHANGED <<lock, startRet, remote, wg, copyTask, pipe, copied,
                   undelivered, exits, pipeFailed, otherVars>>

\* run: cmd.Start(). On failure SetExited(254) and return; on success the
\* stdin copy goroutine is started when the RemoteCmd supplies Stdin.
RunSpawn(c) ==
    /\ pc[c] = "spawn"
    /\ \E ok \in BOOLEAN :
           IF ok
           THEN /\ proc' = [proc EXCEPT ![c].state = "running"]
                /\ stdinTask' = [stdinTask EXCEPT ![c] =
                       IF remote[c].stdin THEN "copying" ELSE "none"]
                /\ exits' = exits
                /\ pc' = [pc EXCEPT ![c] = "wgwait"]
           ELSE /\ proc' = [proc EXCEPT ![c].state = "spawnfail"]
                /\ stdinTask' = stdinTask
                /\ exits' = [exits EXCEPT ![c] = Append(@, SpawnFailedStatus)]
                /\ pc' = [pc EXCEPT ![c] = "unlock"]
    /\ UNCHANGED <<lock, startRet, remote, wg, copyTask, pipe, copied,
                   undelivered, pipeFailed, otherVars>>

\* RunWgWait with a bug: run goes on to cmd.Wait without waiting for the
\* copy goroutines.
RunWgWait_NoWait(c) ==
    /\ pc[c] = "wgwait"
    /\ pc' = [pc EXCEPT ![c] = "cmdwait"]
    /\ UNCHANGED <<lock, startRet, remote, proc, wg, copyTask, stdinTask, pipe,
                   copied, undelivered, exits, pipeFailed, otherVars>>

\* run: wg.Wait()
RunWgWait(c) ==
    /\ pc[c] = "wgwait"
    /\ wg[c] = 0
    /\ pc' = [pc EXCEPT ![c] = "cmdwait"]
    /\ UNCHANGED <<lock, startRet, remote, proc, wg, copyTask, stdinTask, pipe,
                   copied, undelivered, exits, pipeFailed, otherVars>>

\* The error cmd.Wait returns for a process that ended with res, when the
\* wait itself succeeded: nil after exit code 0, else an *exec.ExitError.
WaitErrOf(res, sys) ==
    IF res.kind = "exit" /\ res.code = 0
    THEN WaitErr("nil", TRUE, 0, TRUE)
    ELSE WaitErr("ExitError", res.kind = "exit",
                 IF res.kind = "exit" THEN res.code ELSE 0, sys)

\* syscall.WaitStatus.ExitStatus(): the exit code, or -1 when the process
\* did not exit normally.
WaitStatusExitStatus(err) == IF err.exited THEN err.code ELSE -1

\* run: the exit status derived from cmd.Wait's error.
ExitStatusOf(err) ==
    IF err.kind = "ExitError"
    THEN IF err.sys THEN WaitStatusExitStatus(err) ELSE 1
    ELSE 0

\* run: err := cmd.Wait(); exitStatus from err; remote.SetExited(exitStatus).
\* cmd.Wait blocks until the process has ended, and closes the parent's ends
\* of the pipes. The wait itself may fail (an error that is no
\* *exec.ExitError).
RunCmdWait(c) ==
    /\ pc[c] = "cmdwait"
    /\ proc[c].state = "exited"
    /\ \E waitFails \in BOOLEAN, sys \in BOOLEAN :
           LET err == IF waitFails THEN WaitErr("other", FALSE, 0, FALSE)
                      ELSE WaitErrOf(proc[c].res, sys)
           IN /\ proc' = [proc EXCEPT ![c].state =
                              IF waitFails THEN "waitfailed" ELSE "reaped"]
              /\ exits' = [exits EXCEPT ![c] = Append(@, ExitStatusOf(err))]
    /\ pipe' = [pipe EXCEPT ![c] = NoBytes]
    /\ pc' = [pc EXCEPT ![c] = "unlock"]
    /\ UNCHANGED <<lock, startRet, remote, wg, copyTask, stdinTask, copied,
                   undelivered, pipeFailed, otherVars>>

\* run: the deferred c.lock.Unlock(), and run returns: its frame (cmd and the
\* process's result, the reference to the RemoteCmd, the byte counts) is gone.
\* What the command leaves behind is its exit-status cell and, after a failed
\* cmd.Start, the copy goroutines that have not ended yet. A stdin goroutine
\* still blocked on the caller's reader acts on nothing any more and is
\* dropped from the state.
RunUnlock(c) ==
    /\ pc[c] = "unlock"
    /\ lock' = 0
    /\ pc' = [pc EXCEPT ![c] = "done"]
    /\ proc' = [proc EXCEPT ![c] = [state |-> "none", res |-> NoResult]]
    /\ remote' = [remote EXCEPT ![c] = NoStreams]
    /\ copied' = [copied EXCEPT ![c] = NoBytes]
    /\ undelivered' = [undelivered EXCEPT ![c] = NoBytes]
    /\ stdinTask' = [stdinTask EXCEPT ![c] = "none"]
    /\ UNCHANGED <<startRet, wg, copyTask, pipe, exits, pipeFailed, otherVars>>

\* repeat: io.Copy(w, r) moves a byte from the pipe to the caller's sink.
CopyByte(c, s) ==
    /\ copyTask[c][s] = "copying"
    /\ pipe[c][s] > 0
    /\ pipe' = [pipe EXCEPT ![c][s] = @ - 1]
    /\ copied' = [copied EXCEPT ![c][s] = @ + 1]
    /\ undelivered' = [undelivered EXCEPT ![c][s] = @ - 1]
    /\ UNCHANGED <<lock, startRet, remote, pc, proc, wg, copyTask, stdinTask,
                   exits, pipeFailed, otherVars>>

\* repeat: io.Copy returns when the pipe is drained and closed (the process
\* has ended, cmd.Start failed, or cmd.Wait closed it); r.Close(); wg.Done();
\* the goroutine ends.
CopyEOF(c, s) ==
    /\ copyTask[c][s] = "copying"
    /\ pipe[c][s] = 0
    /\ proc[c].state \notin {"none", "running"} \/ pc[c] = "done"
    /\ copyTask' = [copyTask EXCEPT ![c][s] = "none"]
    /\ wg' = [wg EXCEPT ![c] = @ - 1]
    /\ UNCHANGED <<lock, startRet, remote, pc, proc, stdinTask, pipe, copied,
                   undelivered, exits, pipeFailed, otherVars>>

\* The stdin goroutine: io.Copy(stdin, remote.Stdin) ends (the input's EOF,
\* or a write error once the process is gone); stdin.Close(); the goroutine
\* ends.
StdinCopyDone(c) ==
    /\ stdinTask[c] = "copying"
    /\ stdinTask' = [stdinTask EXCEPT ![c] = "none"]
    /\ UNCHANGED <<lock, startRet, remote, pc, proc, wg, copyTask, pipe, copied,
                   undelivered, exits, pipeFailed, otherVars>>

\* The process writes a byte to one of its output pipes; it blocks while the
\* pipe is full.
ProcWrite(c, s) ==
    /\ proc[c].state = "running"
    /\ pipe[c][s] < PipeCap
    /\ copied[c][s] + pipe[c][s] < MaxOut
    /\ pipe' = [pipe EXCEPT ![c][s] = @ + 1]
    /\ undelivered' = [undelivered EXCEPT ![c][s] =
           IF Wants(c, s) THEN @ + 1 ELSE @]
    /\ UNCHANGED <<lock, startRet, remote, pc, proc, wg, copyTask, stdinTask,
                   copied, exits, pipeFailed, otherVars>>

\* The process ends, which closes its ends of the pipes.
ProcExit(c) ==
    /\ proc[c].state = "running"
    /\ \E r \in ProcResults :
           proc' = [proc EXCEPT ![c] = [state |-> "exited", res |-> r]]
    /\ UNCHANGED <<lock, startRet, remote, pc, wg, copyTask, stdinTask, pipe,
                   copied, undelivered, exits, pipeFailed, otherVars>>

NextComm ==
    \E c \in Cmds :
        \/ StartCall(c)
        \/ StartReturn(c)
        \/ RunLock(c)
        \/ RunFork(c)
        \/ RunSpawn(c)
        \/ RunWgWait(c)
        \/ RunCmdWait(c)
        \/ RunUnlock(c)
        \/ \E s \in Streams : CopyByte(c, s)
        \/ \E s \in Streams : CopyEOF(c, s)
        \/ StdinCopyDone(c)
        \/ \E s \in Streams : ProcWrite(c, s)
        \/ ProcExit(c)

\* A process that writes MaxOut bytes to each of its output streams and ends
\* once it has written them all and its input is at EOF. The input is at
\* EOF when the stdin goroutine has closed the pipe; a process whose caller
\* supplies no Stdin is taken not to wait for its input.
ProcFinish(c) ==
    /\ proc[c].state = "running"
    /\ \A s \in Streams : copied[c][s] + pipe[c][s] = MaxOut
    /\ remote[c].stdin => stdinTask[c] = "none"
    /\ \E r \in ProcResults :
           proc' = [proc EXCEPT ![c] = [state |-> "exited", res |-> r]]
    /\ UNCHANGED <<lock, startRet, remote, pc, wg, copyTask, stdinTask, pipe,
                   copied, undelivered, exits, pipeFailed, otherVars>>

\* The Communicator with such processes.
NextLive ==
    \E c \in Cmds :
        \/ StartCall(c)
        \/ StartReturn(c)
        \/ RunLock(c)
        \/ RunFork(c)
        \/ RunSpawn(c)
        \/ RunWgWait(c)
        \/ RunCmdWait(c)
        \/ RunUnlock(c)
        \/ \E s \in Streams : CopyByte(c, s)
        \/ \E s \in Streams : CopyEOF(c, s)
        \/ StdinCopyDone(c)
        \/ \E s \in Streams : ProcWrite(c, s)
        \/ ProcFinish(c)

\* The scheduler runs every goroutine and process that can take a step, the
\* caller's input reaches EOF, and the caller goes on to its next command.
FairLive ==
    \A c \in Cmds :
        /\ WF_vars(StartCall(c))
        /\ WF_vars(StartReturn(c))
        /\ WF_vars(RunLock(c))
        /\ WF_vars(RunFork(c))
        /\ WF_vars(RunSpawn(c))
        /\ WF_vars(RunWgWait(c))
        /\ WF_vars(RunCmdWait(c))
        /\ WF_vars(RunUnlock(c))
        /\ WF_vars(StdinCopyDone(c))
        /\ WF_vars(ProcFinish(c))
        /\ \A s \in Streams :
               /\ WF_vars(CopyByte(c, s))
               /\ WF_vars(CopyEOF(c, s))
               /\ WF_vars(ProcWrite(c, s))

\* ------------------------------------------ Upload / UploadDir / Download
\* None of the three takes Communicator.lock.

\* The provisioning code calls Upload, UploadDir or Download.
TransferCall(op) ==
    /\ xferPc \in {"idle", "returned"}
    /\ xferCount < MaxTransfers
    /\ xferOp' = op
    /\ xferPc' = "called"
    /\ copyProc' = "none"
    /\ xferCount' = xferCount + 1
    /\ UNCHANGED <<dataVars, commVars, prepVars,
                   pipeVars>>

\* uploadFile, UploadDir, Download: localCmd.Start() of the engine copy
\* subprocess; a failure is returned.
TransferSpawn ==
    /\ xferPc = "called"
    /\ \E ok \in BOOLEAN :
           IF ok
           THEN copyProc' = "running" /\ xferPc' = "streaming"
           ELSE copyProc' = copyProc /\ xferPc' = "returned"
    /\ UNCHANGED <<xferOp, xferCount, dataVars, commVars, prepVars,
                   pipeVars>>

\* The engine copy subprocess ends.
CopyProcExit ==
    /\ copyProc = "running"
    /\ copyProc' = "exited"
    /\ UNCHANGED <<xferOp, xferPc, xferCount, dataVars, commVars, prepVars,
                   pipeVars>>

\* uploadFile, UploadDir, Download: an error return between localCmd.Start
\* and localCmd.Wait (writing the archive, reading the archive header,
\* copying the body, reading the error stream).
TransferAbort ==
    /\ xferPc = "streaming"
    /\ xferPc' = "returned"
    /\ UNCHANGED <<xferOp, copyProc, xferCount, dataVars, commVars, prepVars,
                   pipeVars>>

\* uploadFile, UploadDir, Download: localCmd.Wait(); the uploads go on to
\* fixDestinationOwner, which runs its chown when Config.FixUploadOwner is
\* set.
TransferWait ==
    /\ xferPc = "streaming"
    /\ copyProc = "exited"
    /\ copyProc' = "reaped"
    /\ \E waitOk \in BOOLEAN, fixUploadOwner \in BOOLEAN :
           xferPc' = IF waitOk /\ xferOp # "Download" /\ fixUploadOwner
                     THEN "chown" ELSE "returned"
    /\ UNCHANGED <<xferOp, xferCount, dataVars, commVars, prepVars,
                   pipeVars>>

\* fixDestinationOwner: the chown command has run (CombinedOutput).
TransferChown ==
    /\ xferPc = "chown"
    /\ xferPc' = "returned"
    /\ UNCHANGED <<xferOp, copyProc, xferCount, dataVars, commVars, prepVars,
                   pipeVars>>

NextXfer ==
    \/ \E op \in TransferOps : TransferCall(op)
    \/ TransferSpawn
    \/ CopyProcExit
    \/ TransferAbort
    \/ TransferWait
    \/ TransferChown

\* ------------------------------------------------ the data of a transfer
\* Paths and command arguments are strings, modelled as sequences of
\* one-character strings. The paths considered hold no "." or ".." element.

Sep == "/"
\* Communicator.ContainerID.
ContainerID == <<"c", "1">>
Bytes == {0, 1}
Contents == UNION {[1..n -> Bytes] : n \in 0..MaxLen}

\* The *os.FileInfo given to Upload: nil, or the size and kind of a regular
\* file.
NoMeta == [nil |-> TRUE, size |-> 0, dir |-> FALSE]
Metas == {NoMeta} \cup [nil : {FALSE}, size : 0..MaxLen, dir : {FALSE}]

Min(a, b) == IF a < b THEN a ELSE b

RECURSIVE TrimSep(_)
\* p without its trailing separators.
TrimSep(p) ==
    IF p # <<>> /\ Last(p) = Sep THEN TrimSep(SubSeq(p, 1, Len(p) - 1)) ELSE p

\* The index of the last (first) separator of p; 0 (Len(p) + 1) without one.
LastSepIndex(p) ==
    IF \E i \in 1..Len(p) : p[i] = Sep
    THEN CHOOSE i \in 1..Len(p) :
             p[i] = Sep /\ \A j \in (i + 1)..Len(p) : p[j] # Sep
    ELSE 0
FirstSepIndex(p) ==
    IF \E i \in 1..Len(p) : p[i] = Sep
    THEN CHOOSE i \in 1..Len(p) :
             p[i] = Sep /\ \A j \in 1..(i - 1) : p[j] # Sep
    ELSE Len(p) + 1

\* filepath.Base: the last element of the path, trailing separators removed.
Base(p) ==
    IF p = <<>> THEN <<".">>
    ELSE LET q == TrimSep(p)
         IN IF q = <<>> THEN <<Sep>>
            ELSE SubSeq(q, LastSepIndex(q) + 1, Len(q))

RECURSIVE Collapse(_)
\* p with each run of separators replaced by one.
Collapse(p) ==
    IF Len(p) < 2 THEN p
    ELSE IF p[1] = Sep /\ p[2] = Sep THEN Collapse(Tail(p))
    ELSE <<p[1]>> \o Collapse(Tail(p))

\* filepath.Clean on a path without "." and ".." elements.
Clean(p) ==
    IF p = <<>> THEN <<".">>
    ELSE LET c == Collapse(p)
         IN IF Len(c) > 1 THEN TrimSep(c) ELSE c

\* filepath.Dir: all but the last element of the path, cleaned.
Dir(p) == Clean(SubSeq(p, 1, LastSepIndex(p)))

RECURSIVE Components(_)
\* The engine resolves a path in the container to its names; an empty
\* element and "." name the directory itself, a relative path starts at the
\* root.
Components(p) ==
    IF p = <<>> THEN <<>>
    ELSE LET i == FirstSepIndex(p)
             head == SubSeq(p, 1, i - 1)
             rest == SubSeq(p, i + 1, Len(p))
         IN (IF head \in {<<>>, <<".">>} THEN <<>> ELSE <<head>>)
                \o Components(rest)

\* fmt.Sprintf("%s:%s", c.ContainerID, path): the engine's container path
\* argument, and how the engine reads it.
Target(ctr, path) == ctr \o <<":">> \o path
ColonIndex(arg) ==
    IF \E i \in 1..Len(arg) : arg[i] = ":"
    THEN CHOOSE i \in 1..Len(arg) :
             arg[i] = ":" /\ \A j \in 1..(i - 1) : arg[j] # ":"
    ELSE Len(arg) + 1
EngineContainer(arg) == SubSeq(arg, 1, ColonIndex(arg) - 1)
EnginePath(arg) == Components(SubSeq(arg, ColonIndex(arg) + 1, Len(arg)))

\* The container's file tree maps the paths that exist to a file with its
\* bytes or to a directory.
File(body) == [typ |-> "file", body |-> body]
DirNode == [typ |-> "dir", body |-> <<>>]
IsDir(f, n) == n \in DOMAIN f /\ f[n].typ = "dir"
IsFile(f, n) == n \in DOMAIN f /\ f[n].typ = "file"
Put(f, n, node) == [m \in DOMAIN f \cup {n} |-> IF m = n THEN node ELSE f[m]]
Parent(n) == SubSeq(n, 1, Len(n) - 1)
Children(f, n) == {m \in DOMAIN f : m # <<>> /\ Parent(m) = n}

\* The container at the start: the root and the directory /d; /d/f may be
\* missing, a file (of a content that is not uploaded) or a directory.
BaseTree == (<<>> :> DirNode) @@ (<< <<"d">> >> :> DirNode)
InitialTrees ==
    {BaseTree,
     Put(BaseTree, << <<"d">>, <<"f">> >>, File(<<2>>)),
     Put(BaseTree, << <<"d">>, <<"f">> >>, DirNode)}

\* The paths the caller uses.
UploadDsts ==
    {<<Sep, "d", Sep, "f">>, <<"f">>, <<Sep, "x", Sep, "f">>}
DownloadSrcs == {<<Sep, "d", Sep, "f">>, <<"f">>, <<Sep, "d">>, <<Sep, "n">>}
UploadDirDsts == {<<Sep, "d">>, <<Sep, "x">>}
\* The host directory /h holds one file, f.
HostDirs == {<<Sep, "h">>, <<Sep, "h", Sep>>, <<>>}
HostFileName == <<"f">>
HostFileBody == <<1>>

\* tar.FileInfoHeader(*fi, "") with header.Name = name, and the entry the
\* tar.Writer produces for it from io.Copy(archive, src) and
\* archive.Close(): at most header.Size bytes are accepted
\* (ErrWriteTooLong beyond), and Close fails when fewer were written.
TarHeader(fi, name) ==
    [name |-> name,
     typ |-> IF fi.dir THEN "dir" ELSE "file",
     size |-> IF fi.dir THEN 0 ELSE fi.size]
TarWrite(header, src) ==
    [entry |-> [name |-> header.name, typ |-> header.typ,
                body |-> SubSeq(src, 1, Min(header.size, Len(src)))],
     err |-> IF Len(src) > header.size THEN "pipe-upload"
             ELSE IF Len(src) < header.size THEN "close-archive"
             ELSE "nil"]

\* The engine, `podman cp - <container>:<dir>`: the archive's entry is
\* extracted into the directory, which must exist; a file does not replace
\* a directory nor a directory a file.
EnginePut(f, arg, e) ==
    LET d == EnginePath(arg)
        names == Components(e.name)
        n == d \o names
        failed == [ok |-> FALSE, fs |-> f]
    IN IF EngineContainer(arg) # ContainerID \/ ~IsDir(f, d) \/ names = <<>>
       THEN failed
       ELSE IF ~IsDir(f, Parent(n)) THEN failed
       ELSE IF e.typ = "file"
       THEN IF IsDir(f, n) THEN failed
            ELSE [ok |-> TRUE, fs |-> Put(f, n, File(e.body))]
       ELSE IF IsFile(f, n) THEN failed
            ELSE [ok |-> TRUE, fs |-> IF IsDir(f, n) THEN f ELSE Put(f, n, DirNode)]

\* What the engine prints on its error stream when it cannot copy.
Diag == <<"Error: no such file or directory">>

\* The archive entry of a node, named as the engine names it.
EntryOf(f, n, name) == [name |-> name, typ |-> f[n].typ, body |-> f[n].body]
\* The entries of a set of nodes below the directory named dirName, in some
\* order.
EntriesOf(f, ns, dirName) ==
    LET order == CHOOSE s \in [1..Cardinality(ns) -> ns] :
                     \A i, j \in 1..Cardinality(ns) : s[i] = s[j] => i = j
    IN [i \in 1..Cardinality(ns) |->
           EntryOf(f, order[i], dirName \o <<Sep>> \o Last(order[i]))]

\* The engine, `podman cp <container>:<src> -`: a tar stream on stdout. A
\* file gives one entry; a directory gives its own entry followed by the
\* entries below it; a path that does not exist gives no entry and a
\* diagnostic on the error stream.
EngineGet(f, arg) ==
    LET n == EnginePath(arg)
        name == IF n = <<>> THEN <<".">> ELSE Last(n)
    IN IF EngineContainer(arg) # ContainerID \/ n \notin DOMAIN f
       THEN [archive |-> <<>>, stderr |-> Diag]
       ELSE IF f[n].typ = "file"
       THEN [archive |-> <<EntryOf(f, n, name)>>, stderr |-> <<>>]
       ELSE [archive |-> <<EntryOf(f, n, name \o <<Sep>>)>>
                           \o EntriesOf(f, Children(f, n), name),
             stderr |-> <<>>]

\* The engine, `podman cp <hostdir> <container>:<dst>`, for the host
\* directory /h: when dst does not exist it is created and receives the
\* directory's contents; when dst is a directory it receives the contents if
\* the source ends in "/." and the directory itself otherwise; dst being a
\* file is an error.
EnginePutDir(f, srcArg, dstArg) ==
    LET d == EnginePath(dstArg)
        contentsOnly == Len(srcArg) >= 2
                          /\ SubSeq(srcArg, Len(srcArg) - 1, Len(srcArg)) = <<Sep, ".">>
        hostName == Base(IF contentsOnly
                         THEN SubSeq(srcArg, 1, Len(srcArg) - 2) ELSE srcArg)
        failed == [ok |-> FALSE, fs |-> f]
        into(g, dir) ==
            IF IsDir(g, dir \o <<HostFileName>>) THEN failed
            ELSE [ok |-> TRUE, fs |-> Put(g, dir \o <<HostFileName>>, File(HostFileBody))]
    IN IF EngineContainer(dstArg) # ContainerID \/ d = <<>> THEN failed
       ELSE IF IsFile(f, d) THEN failed
       ELSE IF d \notin DOMAIN f
       THEN IF IsDir(f, Parent(d)) THEN into(Put(f, d, DirNode), d) ELSE failed
       ELSE IF contentsOnly THEN into(f, d)
       ELSE IF IsFile(f, d \o <<hostName>>) THEN failed
       ELSE into(Put(f, d \o <<hostName>>, DirNode), d \o <<hostName>>)

\* No engine command was started.
NoCmd == [src |-> <<>>, dst |-> <<>>]
\* No chown command was issued.
NoChown == [issued |-> FALSE, owner |-> "", path |-> <<>>]
NoRes ==
    [op |-> "none", path |-> <<>>, from |-> <<>>, cmd |-> NoCmd, err |-> "nil",
     text |-> <<>>, out |-> <<>>, fail |-> "none", chown |-> NoChown,
     temp |-> "none"]
\* What a transfer returns: path is its container path, from the host
\* directory of UploadDir, cmd the engine command it started, err its error
\* ("nil" for none), text the text the error carries, out the bytes written
\* to the caller's writer, fail what went wrong around it, chown the chown
\* command it issued, temp what became of uploadReader's temporary file
\* ("none" when none was created, else "removed" or "left").
Result(op, path, from, cmd, err, text, out, fail) ==
    [op |-> op, path |-> path, from |-> from, cmd |-> cmd, err |-> err,
     text |-> text, out |-> out, fail |-> fail, chown |-> NoChown,
     temp |-> "none"]

\* fixDestinationOwner with a bug: Config.FixUploadOwner is not looked at.
fixDestinationOwner_IgnoresFlag(destination, chownFails) ==
    [cmd |-> [issued |-> TRUE,
              owner |-> IF ccfg.ContainerUser = "" THEN "root"
                        ELSE ccfg.ContainerUser,
              path |-> destination],
     err |-> IF chownFails THEN "chown" ELSE "nil"]

\* fixDestinationOwner: nothing when Config.FixUploadOwner is not set; else
\* `podman exec --user root <container> /bin/sh -c "chown -R <owner>
\* <destination>"`, the owner being ContainerUser, or root when that is
\* empty; the command's failure is returned.
fixDestinationOwner(destination, chownFails) ==
    IF ~ccfg.FixUploadOwner THEN [cmd |-> NoChown, err |-> "nil"]
    ELSE [cmd |-> [issued |-> TRUE,
                   owner |-> IF ccfg.ContainerUser = "" THEN "root"
                             ELSE ccfg.ContainerUser,
                   path |-> destination],
          err |-> IF chownFails THEN "chown" ELSE "nil"]

\* uploadFile with a bug: the archive is sent to dst itself instead of the
\* directory dst is in.
UploadTarget_NoDir(dst) == Target(ContainerID, dst)

\* uploadFile: the engine's destination argument,
\* fmt.Sprintf("%s:%s", c.ContainerID, filepath.Dir(dst)).
UploadTarget(dst) == Target(ContainerID, Dir(dst))

\* uploadFile: header.Name = filepath.Base(dst).
HeaderName(dst) == Base(dst)

\* uploadFile: the outcomes, each the error returned and the container's
\* tree afterwards. fail is what goes wrong: "start" (a pipe cannot be
\* opened or the engine cannot be started), "engine" (the engine fails for a
\* reason of its own), "chown" (the chown of fixDestinationOwner, if it is
\* run, fails). When the archive cannot be completed the function returns
\* without closing stdin: the engine may then have extracted nothing or the
\* bytes it got.
uploadFile(dst, src, fi, fail, f) ==
    LET cmd == [src |-> <<"-">>, dst |-> UploadTarget(dst)]
        w == TarWrite(TarHeader(fi, HeaderName(dst)), src)
        put == IF fail = "engine" THEN [ok |-> FALSE, fs |-> f]
               ELSE EnginePut(f, cmd.dst, w.entry)
        own == fixDestinationOwner(dst, fail = "chown")
        ret(c, err, g) ==
            [res |-> Result("Upload", dst, <<>>, c, err, <<>>, <<>>, fail),
             fs |-> g]
    IN IF fail = "start" THEN {ret(NoCmd, "start", f)}
       ELSE IF w.err # "nil" THEN {ret(cmd, w.err, f), ret(cmd, w.err, put.fs)}
       ELSE IF ~put.ok THEN {ret(cmd, "wait", f)}
       ELSE {[res |-> [ret(cmd, own.err, put.fs).res EXCEPT !.chown = own.cmd],
              fs |-> put.fs]}

\* uploadReader with a bug: the temporary file is removed on the successful
\* return only.
uploadReader_LeavesTempOnError(dst, src, fail, f) ==
    IF fail = "tempfile"
    THEN {[res |-> Result("Upload", dst, <<>>, NoCmd, "tempfile", <<>>, <<>>, fail),
           fs |-> f]}
    ELSE IF fail = "tempcopy"
    THEN {[res |-> [Result("Upload", dst, <<>>, NoCmd, "tempcopy", <<>>, <<>>, fail)
                       EXCEPT !.temp = "left"],
           fs |-> f]}
    ELSE {[r EXCEPT !.res.temp = IF r.res.err = "nil" THEN "removed" ELSE "left"] :
             r \in uploadFile(dst, src,
                              [nil |-> FALSE, size |-> Len(src), dir |-> FALSE],
                              fail, f)}

\* uploadReader: os.CreateTemp in HostDir ("tempfile" when it fails), with
\* the deferred Close and Remove of the file; the reader is copied to the
\* file ("tempcopy" when that, the Seek or the Stat fails); the file's
\* FileInfo (its size is the number of bytes copied) and content go to
\* uploadFile. The deferred Remove runs on every return that follows
\* CreateTemp.
uploadReader(dst, src, fail, f) ==
    IF fail = "tempfile"
    THEN {[res |-> Result("Upload", dst, <<>>, NoCmd, "tempfile", <<>>, <<>>, fail),
           fs |-> f]}
    ELSE IF fail = "tempcopy"
    THEN {[res |-> [Result("Upload", dst, <<>>, NoCmd, "tempcopy", <<>>, <<>>, fail)
                       EXCEPT !.temp = "removed"],
           fs |-> f]}
    ELSE {[r EXCEPT !.res.temp = "removed"] :
             r \in uploadFile(dst, src,
                              [nil |-> FALSE, size |-> Len(src), dir |-> FALSE],
                              fail, f)}

UploadFails == {"none", "tempfile", "tempcopy", "start", "engine", "chown"}

\* Upload(dst, src, fi). The failures of the temporary file belong to the
\* upload of a reader without a FileInfo.
Upload ==
    /\ nOps < MaxCopyOps
    /\ \E dst \in UploadDsts, fail \in UploadFails :
          /\ fail \in {"tempfile", "tempcopy"} => meta.nil
          /\ \E r \in (IF meta.nil THEN uploadReader(dst, payload, fail, fs)
                       ELSE uploadFile(dst, payload, meta, fail, fs)) :
                 /\ xfer' = r.res
                 /\ fs' = r.fs
    /\ nOps' = nOps + 1
    /\ UNCHANGED <<payload, meta, ccfg, xferOp, xferPc, copyProc, xferCount,
                   commVars, prepVars, pipeVars>>

\* UploadDir with a bug: the source is passed as it is.
PodmanSource_AsIs(src) == src

\* UploadDir: podmanSource, src + "." when src ends with the separator.
PodmanSource(src) == IF src[Len(src)] = Sep THEN src \o <<".">> ELSE src

\* UploadDir(dst, src, exclude). src[len(src)-1] panics for the empty
\* string, which ends the process.
UploadDir ==
    /\ nOps < MaxCopyOps
    /\ \E dst \in UploadDirDsts, src \in HostDirs,
          fail \in {"none", "start", "engine", "chown"} :
          IF src = <<>>
          THEN /\ xfer' = Result("UploadDir", dst, src, NoCmd, "panic", <<>>, <<>>, "none")
               /\ fs' = fs
               /\ nOps' = MaxCopyOps
          ELSE LET cmd == [src |-> PodmanSource(src),
                           dst |-> Target(ContainerID, dst)]
                   put == IF fail = "engine" THEN [ok |-> FALSE, fs |-> fs]
                          ELSE EnginePutDir(fs, cmd.src, cmd.dst)
                   own == fixDestinationOwner(dst, fail = "chown")
                   ret(c, err) ==
                       Result("UploadDir", dst, src, c, err, <<>>, <<>>, fail)
               IN /\ nOps' = nOps + 1
                  /\ IF fail = "start"
                     THEN xfer' = ret(NoCmd, "start") /\ fs' = fs
                     ELSE IF ~put.ok
                     THEN xfer' = ret(cmd, "wait") /\ fs' = fs
                     ELSE /\ xfer' = [ret(cmd, own.err) EXCEPT !.chown = own.cmd]
                          /\ fs' = put.fs
    /\ UNCHANGED <<payload, meta, ccfg, xferOp, xferPc, copyProc, xferCount,
                   commVars, prepVars, pipeVars>>

\* Download with a bug: the error stream is not consulted.
HeaderError_Generic(stderrRead, stderrOut) ==
    [err |-> "header", text |-> <<>>]

\* Download, after archive.Next() failed: the text of the error stream when
\* it could be read and is not empty, else the header-read error.
HeaderError(stderrRead, stderrOut) ==
    IF stderrRead /\ stderrOut # <<>>
    THEN [err |-> "diag", text |-> stderrOut]
    ELSE [err |-> "header", text |-> <<>>]

RECURSIVE AllBodies(_)
AllBodies(archive) ==
    IF archive = <<>> THEN <<>>
    ELSE Head(archive).body \o AllBodies(Tail(archive))

\* DownloadBody with a bug: the bodies of all entries are copied.
DownloadBody_AllEntries(archive) == AllBodies(archive)

\* Download: io.Copy(dst, archive) after one archive.Next(): a tar.Reader
\* reads to the end of the current entry, so the bytes copied are the first
\* entry's body.
DownloadBody(archive) == archive[1].body

DownloadFails ==
    {"none", "start", "engine-silent", "engine-diag", "stderr-read", "wait",
     "pipe-full"}

\* Download(src, dst). fail is what goes wrong: "start" (a pipe or the
\* engine's start), "engine-silent" and "engine-diag" (the engine produces
\* no archive, without and with a diagnostic), "stderr-read" (the error
\* stream cannot be read), "wait" (localCmd.Wait returns an error),
\* "pipe-full" (what follows the first entry does not fit the pipe). Only
\* the first entry of the archive is read; when more follow, the engine
\* either could write them all into the pipe and has ended, or is blocked
\* writing, and then localCmd.Wait does not return. The caller's writer
\* takes every byte.
Download ==
    /\ nOps < MaxCopyOps
    /\ \E src \in DownloadSrcs, fail \in DownloadFails :
          LET cmd == [src |-> Target(ContainerID, src), dst |-> <<"-">>]
              got == CASE fail = "engine-silent" -> [archive |-> <<>>, stderr |-> <<>>]
                       [] fail = "engine-diag" -> [archive |-> <<>>, stderr |-> Diag]
                       [] OTHER -> EngineGet(fs, cmd.src)
              herr == HeaderError(fail # "stderr-read", got.stderr)
              ret(c, err, text, out) ==
                  Result("Download", src, <<>>, c, err, text, out, fail)
          IN IF fail = "start"
             THEN xfer' = ret(NoCmd, "start", <<>>, <<>>) /\ nOps' = nOps + 1
             ELSE IF got.archive = <<>>
             THEN xfer' = ret(cmd, herr.err, herr.text, <<>>) /\ nOps' = nOps + 1
             ELSE IF Len(got.archive) > 1 /\ fail = "pipe-full"
             THEN /\ xfer' = ret(cmd, "blocked", <<>>, DownloadBody(got.archive))
                  /\ nOps' = MaxCopyOps
             ELSE IF fail = "wait"
             THEN /\ xfer' = ret(cmd, "wait", <<>>, DownloadBody(got.archive))
                  /\ nOps' = nOps + 1
             ELSE /\ xfer' = ret(cmd, "nil", <<>>, DownloadBody(got.archive))
                  /\ nOps' = nOps + 1
    /\ UNCHANGED <<fs, payload, meta, ccfg, xferOp, xferPc, copyProc, xferCount,
                   commVars, prepVars, pipeVars>>

\* DownloadDir(src, dst, exclude): not implemented.
DownloadDir ==
    /\ nOps < MaxCopyOps
    /\ \E src \in DownloadSrcs :
          xfer' = Result("DownloadDir", src, <<>>, NoCmd, "notimplemented",
                        <<>>, <<>>, "none")
    /\ nOps' = nOps + 1
    /\ UNCHANGED <<fs, payload, meta, ccfg, xferOp, xferPc, copyProc, xferCount,
                   commVars, prepVars, pipeVars>>

NextCopy ==
    \/ Upload
    \/ UploadDir
    \/ Download
    \/ DownloadDir

\* No transfer's data is followed.
\* Config.Prepare sets FixUploadOwner unless the configuration unsets it.
DefaultOwnerConfig == [FixUploadOwner |-> TRUE, ContainerUser |-> ""]
OwnerConfigs == [FixUploadOwner : BOOLEAN, ContainerUser : {"", "u"}]

InitCopyIdle ==
    /\ fs = BaseTree
    /\ payload = <<>>
    /\ meta = NoMeta
    /\ xfer = NoRes
    /\ nOps = 0
    /\ ccfg = DefaultOwnerConfig

\* The caller has some bytes to upload, with or without a FileInfo.
InitCopy ==
    /\ fs \in InitialTrees
    /\ payload \in Contents
    /\ meta \in Metas
    /\ xfer = NoRes
    /\ nOps = 0
    /\ ccfg = DefaultOwnerConfig

\* The caller uploads one byte, with its FileInfo or without one, through a
\* Communicator of any ownership configuration.
InitOwner ==
    /\ fs \in InitialTrees
    /\ payload = <<1>>
    /\ meta \in {NoMeta, [nil |-> FALSE, size |-> 1, dir |-> FALSE]}
    /\ xfer = NoRes
    /\ nOps = 0
    /\ ccfg \in OwnerConfigs

\* ------------------------------------------------------- the step pipeline

\* What StateBag.Get returns for a key that was never Put.
Nil == "<nil>"
\* The handles Driver.StartContainer may return.
Handles == {"c1", "c2"}
\* The builder's pipeline (pull, run, connect, the provisioning step, export)
\* and a pipeline whose export step comes second.
BuildPipeline == <<"Pull", "Run", "Connect", "Other", "Export">>
ExportSecondPipeline == <<"Run", "Export", "Other">>
Pipelines == {BuildPipeline, ExportSecondPipeline}

\* What a step finds under a key it reads with a type assertion: a value of
\* the asserted type, nothing, or a value of another type.
Prereq == {"ok", "missing", "wrongtype"}
\* A value under container_id that is no string.
WrongType == "<wrongtype>"
EmptyBag ==
    [ui |-> "missing", config |-> "missing", driver |-> "missing",
     temp_dir |-> "missing", error |-> Nil, container_id |-> Nil,
     instance_id |-> Nil, communicator |-> Nil]
\* The bag the builder hands to the runner: ui, config, driver and temp_dir
\* are in it.
BuildBag ==
    [EmptyBag EXCEPT !.ui = "ok", !.config = "ok", !.driver = "ok",
                     !.temp_dir = "ok"]
\* What Driver.Export may write, and the export path before the build: no
\* file, or an empty one.
ExportDatas == {<<1>>, <<0, 1>>}
ExportFiles == {Nil, <<>>}
NoCalls ==
    [login |-> 0, loggedIn |-> 0, logout |-> 0, pull |-> 0, version |-> 0,
     started |-> <<>>, export |-> <<>>, exportData |-> Nil, kill |-> <<>>,
     failed |-> {}, trace |-> <<>>]

\* No build is running (the Communicator is studied on its own).
InitPipeIdle ==
    /\ steps = <<>>
    /\ config = [Pull |-> FALSE, Login |-> FALSE]
    /\ runnerPc = "idle"
    /\ idx = 0
    /\ cidx = 0
    /\ runLog = <<>>
    /\ actions = <<>>
    /\ cleanupLog = <<>>
    /\ cleanupErrs = {}
    /\ bag = EmptyBag
    /\ containerId = ""
    /\ driver = NoCalls
    /\ uiErrors = 0
    /\ exportFile = Nil

\* A build starts: the runner is handed a pipeline and a bag holding the ui,
\* the config, the driver and temp_dir.
InitPipe ==
    /\ steps \in Pipelines
    /\ config \in [Pull : BOOLEAN, Login : BOOLEAN]
    /\ runnerPc = "run"
    /\ idx = 1
    /\ cidx = 0
    /\ runLog = <<>>
    /\ actions = <<>>
    /\ cleanupLog = <<>>
    /\ cleanupErrs = {}
    /\ bag = BuildBag
    /\ containerId = ""
    /\ driver = NoCalls
    /\ uiErrors = 0
    /\ exportFile \in ExportFiles

\* StepPullRun with a bug: a failed Pull records the error but the step
\* returns Continue.
StepPullRun_ContinuesOnPullError(action) ==
    /\ UNCHANGED containerId
    /\ action = "Continue"
    /\ IF ~config.Pull
       THEN UNCHANGED <<bag, driver, uiErrors>>
       ELSE \E pullOk \in BOOLEAN :
              /\ driver' = [driver EXCEPT
                              !.pull = @ + 1,
                              !.trace = Append(@, "Pull"),
                              !.failed = @ \cup (IF pullOk THEN {} ELSE {"pull"})]
              /\ bag' = IF pullOk THEN bag ELSE [bag EXCEPT !.error = "pull"]
              /\ uiErrors' = uiErrors + (IF pullOk THEN 0 ELSE 1)

\* StepPullRun with a bug: Logout is called at the end of Run instead of
\* being deferred, so a failed Pull returns without it.
StepPullRun_LogoutNotDeferred(action) ==
    /\ UNCHANGED containerId
    /\ IF ~config.Pull
       THEN /\ action = "Continue"
            /\ UNCHANGED <<bag, driver, uiErrors>>
       ELSE \E loginOk \in BOOLEAN, pullOk \in BOOLEAN :
              IF config.Login /\ ~loginOk
              THEN /\ action = "Halt"
                   /\ driver' = [driver EXCEPT !.login = @ + 1,
                                               !.trace = Append(@, "Login"),
                                               !.failed = @ \cup {"login"}]
                   /\ bag' = [bag EXCEPT !.error = "login"]
                   /\ uiErrors' = uiErrors + 1
              ELSE /\ action = (IF pullOk THEN "Continue" ELSE "Halt")
                   /\ driver' =
                        [driver EXCEPT
                           !.login = IF config.Login THEN @ + 1 ELSE @,
                           !.loggedIn = IF config.Login THEN @ + 1 ELSE @,
                           !.pull = @ + 1,
                           !.logout = IF config.Login /\ pullOk THEN @ + 1 ELSE @,
                           !.trace = @ \o (IF config.Login THEN <<"Login">> ELSE <<>>)
                                       \o <<"Pull">>
                                       \o (IF config.Login /\ pullOk
                                           THEN <<"Logout">> ELSE <<>>),
                           !.failed = @ \cup (IF pullOk THEN {} ELSE {"pull"})]
                   /\ bag' = IF pullOk THEN bag
                             ELSE [bag EXCEPT !.error = "pull"]
                   /\ uiErrors' = uiErrors + (IF pullOk THEN 0 ELSE 1)

\* StepPullRun with a bug: a failed Login is recorded and reported, but the
\* step goes on to Pull.
StepPullRun_PullsAfterLoginFailure(action) ==
    /\ UNCHANGED containerId
    /\ IF ~config.Pull
       THEN /\ action = "Continue"
            /\ UNCHANGED <<bag, driver, uiErrors>>
       ELSE \E loginOk \in BOOLEAN :
              /\ action = (IF config.Login /\ ~loginOk THEN "Halt" ELSE "Continue")
              /\ driver' =
                   [driver EXCEPT
                      !.login = IF config.Login THEN @ + 1 ELSE @,
                      !.loggedIn = IF config.Login /\ loginOk THEN @ + 1 ELSE @,
                      !.pull = @ + 1,
                      !.logout = IF config.Login /\ loginOk THEN @ + 1 ELSE @,
                      !.trace = @ \o (IF config.Login THEN <<"Login">> ELSE <<>>)
                                  \o <<"Pull">>
                                  \o (IF config.Login /\ loginOk
                                      THEN <<"Logout">> ELSE <<>>),
                      !.failed = @ \cup (IF config.Login /\ ~loginOk
                                         THEN {"login"} ELSE {})]
              /\ bag' = IF config.Login /\ ~loginOk
                        THEN [bag EXCEPT !.error = "login"] ELSE bag
              /\ uiErrors' = uiErrors + (IF config.Login /\ ~loginOk THEN 1 ELSE 0)

\* StepPull.Run, returning action ("Panic": a failed unchecked type
\* assertion on a bag value, which panics). ui is asserted first, config is
\* checked, and driver is asserted only when pulling is enabled.
StepPullRun(action) ==
    /\ UNCHANGED containerId
    /\ IF bag.ui # "ok"
       THEN /\ action = "Panic"
            /\ UNCHANGED <<bag, driver, uiErrors>>
       ELSE IF bag.config # "ok"
       THEN /\ action = "Halt"
            /\ bag' = [bag EXCEPT !.error = "config"]
            /\ uiErrors' = uiErrors + 1
            /\ UNCHANGED driver
       ELSE IF ~config.Pull
       THEN /\ action = "Continue"
            /\ UNCHANGED <<bag, driver, uiErrors>>
       ELSE IF bag.driver # "ok"
       THEN /\ action = "Panic"
            /\ UNCHANGED <<bag, driver, uiErrors>>
       ELSE \E loginOk \in BOOLEAN, pullOk \in BOOLEAN, logoutOk \in BOOLEAN :
              IF config.Login /\ ~loginOk
              THEN /\ action = "Halt"
                   /\ driver' = [driver EXCEPT !.login = @ + 1,
                                               !.trace = Append(@, "Login"),
                                               !.failed = @ \cup {"login"}]
                   /\ bag' = [bag EXCEPT !.error = "login"]
                   /\ uiErrors' = uiErrors + 1
              ELSE /\ action = (IF pullOk THEN "Continue" ELSE "Halt")
                   /\ driver' =
                        [driver EXCEPT
                           !.login = IF config.Login THEN @ + 1 ELSE @,
                           !.loggedIn = IF config.Login THEN @ + 1 ELSE @,
                           !.pull = @ + 1,
                           !.logout = IF config.Login THEN @ + 1 ELSE @,
                           !.trace = @ \o (IF config.Login THEN <<"Login">> ELSE <<>>)
                                       \o <<"Pull">>
                                       \o (IF config.Login THEN <<"Logout">> ELSE <<>>),
                           !.failed = @ \cup (IF pullOk THEN {} ELSE {"pull"})
                                        \cup (IF config.Login /\ ~logoutOk
                                              THEN {"logout"} ELSE {})]
                   /\ bag' = IF pullOk THEN bag
                             ELSE [bag EXCEPT !.error = "pull"]
                   /\ uiErrors' = uiErrors + (IF pullOk THEN 0 ELSE 1)
                                    + (IF config.Login /\ ~logoutOk THEN 1 ELSE 0)

\* StepPull.Cleanup: empty.
StepPullCleanup == UNCHANGED <<bag, containerId, driver, uiErrors>>

\* The handles Driver.StartContainer has not returned yet: a started
\* container's handle is its own.
FreshHandles == Handles \ {driver.started[i] : i \in 1..Len(driver.started)}

\* StepRunRun with a bug: the handle is put under container_id but not under
\* instance_id.
StepRunRun_NoInstanceId(action) ==
    \E ok \in BOOLEAN :
        IF ~ok
        THEN /\ action = "Halt"
             /\ driver' = [driver EXCEPT !.failed = @ \cup {"start"},
                                         !.trace = Append(@, "StartContainer")]
             /\ bag' = [bag EXCEPT !.error = "start"]
             /\ uiErrors' = uiErrors + 1
             /\ UNCHANGED containerId
        ELSE \E h \in FreshHandles :
             /\ action = "Continue"
             /\ driver' = [driver EXCEPT !.started = Append(@, h),
                                         !.trace = Append(@, "StartContainer")]
             /\ containerId' = h
             /\ bag' = [bag EXCEPT !.container_id = h]
             /\ UNCHANGED uiErrors

\* StepRun.Run, returning action. ui, temp_dir and driver are read with
\* unchecked type assertions, config with a checked one.
StepRunRun(action) ==
    IF bag.ui # "ok"
    THEN /\ action = "Panic"
         /\ UNCHANGED <<bag, driver, uiErrors, containerId>>
    ELSE IF bag.config # "ok"
    THEN /\ action = "Halt"
         /\ bag' = [bag EXCEPT !.error = "config"]
         /\ uiErrors' = uiErrors + 1
         /\ UNCHANGED <<driver, containerId>>
    ELSE IF bag.temp_dir # "ok" \/ bag.driver # "ok"
    THEN /\ action = "Panic"
         /\ UNCHANGED <<bag, driver, uiErrors, containerId>>
    ELSE \E ok \in BOOLEAN :
        IF ~ok
        THEN /\ action = "Halt"
             /\ driver' = [driver EXCEPT !.failed = @ \cup {"start"},
                                         !.trace = Append(@, "StartContainer")]
             /\ bag' = [bag EXCEPT !.error = "start"]
             /\ uiErrors' = uiErrors + 1
             /\ UNCHANGED containerId
        ELSE \E h \in FreshHandles :
             /\ action = "Continue"
             /\ driver' = [driver EXCEPT !.started = Append(@, h),
                                         !.trace = Append(@, "StartContainer")]
             /\ containerId' = h
             /\ bag' = [bag EXCEPT !.container_id = h, !.instance_id = h]
             /\ UNCHANGED uiErrors

\* StepRunCleanup with a bug: the handle is cleared but the container is
\* not killed.
StepRunCleanup_NoKill(killFailed) ==
    /\ UNCHANGED <<bag, uiErrors, driver>>
    /\ killFailed = FALSE
    /\ containerId' = ""

\* StepRunCleanup with a bug: the recorded handle is kept when
\* KillContainer returns an error.
StepRunCleanup_KeepsHandleOnError(killFailed) ==
    /\ UNCHANGED <<bag, uiErrors>>
    /\ IF containerId = ""
       THEN /\ killFailed = FALSE
            /\ UNCHANGED <<driver, containerId>>
       ELSE /\ driver' = [driver EXCEPT
                            !.kill = Append(@, containerId),
                            !.trace = Append(@, "KillContainer"),
                            !.failed = @ \cup (IF killFailed THEN {"kill"} ELSE {})]
            /\ containerId' = (IF killFailed THEN containerId ELSE "")

\* StepRun.Cleanup; killFailed tells whether KillContainer returned an error,
\* which Cleanup ignores. With a handle recorded, driver and ui are read with
\* unchecked type assertions; a handle is recorded only by a Run that found
\* both.
StepRunCleanup(killFailed) ==
    /\ UNCHANGED <<bag, uiErrors>>
    /\ IF containerId = ""
       THEN /\ killFailed = FALSE
            /\ UNCHANGED <<driver, containerId>>
       ELSE /\ bag.driver = "ok" /\ bag.ui = "ok"
            /\ driver' = [driver EXCEPT
                            !.kill = Append(@, containerId),
                            !.trace = Append(@, "KillContainer"),
                            !.failed = @ \cup (IF killFailed THEN {"kill"} ELSE {})]
            /\ containerId' = ""

\* StepConnectPodman.Run, returning action. config is checked;
\* container_id, driver and temp_dir are read with unchecked type assertions.
\* The step does not read ui.
StepConnectRun(action) ==
    /\ UNCHANGED <<containerId, uiErrors>>
    /\ IF bag.config # "ok"
       THEN /\ action = "Halt"
            /\ bag' = [bag EXCEPT !.error = "config"]
            /\ UNCHANGED driver
       ELSE IF \/ bag.container_id \in {Nil, WrongType}
               \/ bag.driver # "ok"
               \/ bag.temp_dir # "ok"
       THEN /\ action = "Panic"
            /\ UNCHANGED <<bag, driver>>
       ELSE \E versionOk \in BOOLEAN, inspectOk \in BOOLEAN :
          /\ driver' = [driver EXCEPT
                          !.version = @ + 1,
                          !.trace = Append(@, "Version"),
                          !.failed = @ \cup (IF versionOk THEN {} ELSE {"version"})]
          /\ IF ~versionOk
             THEN action = "Halt" /\ bag' = [bag EXCEPT !.error = "version"]
             ELSE IF ~inspectOk
             THEN action = "Halt" /\ bag' = [bag EXCEPT !.error = "inspect"]
             ELSE /\ action = "Continue"
                  /\ bag' = [bag EXCEPT !.communicator = bag.container_id]

\* StepConnectPodman.Cleanup: empty.
StepConnectCleanup == UNCHANGED <<bag, containerId, driver, uiErrors>>

\* StepExportRun with a bug: the file is left at the export path when
\* Export fails.
StepExportRun_KeepsFileOnError(action) ==
    /\ bag.container_id # Nil
    /\ UNCHANGED containerId
    /\ \E ok \in BOOLEAN, data \in ExportDatas :
          /\ driver' = [driver EXCEPT
                          !.export = Append(@, bag.container_id),
                          !.exportData = IF ok THEN data ELSE @,
                          !.trace = Append(@, "Export"),
                          !.failed = @ \cup (IF ok THEN {} ELSE {"export"})]
          /\ IF ok
             THEN /\ action = "Continue"
                  /\ exportFile' = data
                  /\ UNCHANGED <<bag, uiErrors>>
             ELSE /\ action = "Halt"
                  /\ exportFile' = <<>>
                  /\ bag' = [bag EXCEPT !.error = "export"]
                  /\ uiErrors' = uiErrors + 1

\* StepExportRun with a bug: the handle exported is StepRun's first, not the
\* one under container_id.
StepExportRun_ExportsFirstHandle(action) ==
    /\ bag.container_id # Nil
    /\ UNCHANGED containerId
    /\ \E ok \in BOOLEAN, data \in ExportDatas :
          /\ driver' = [driver EXCEPT
                          !.export = Append(@, "c1"),
                          !.exportData = IF ok THEN data ELSE @,
                          !.trace = Append(@, "Export"),
                          !.failed = @ \cup (IF ok THEN {} ELSE {"export"})]
          /\ IF ok
             THEN /\ action = "Continue"
                  /\ exportFile' = data
                  /\ UNCHANGED <<bag, uiErrors>>
             ELSE /\ action = "Halt"
                  /\ exportFile' = Nil
                  /\ bag' = [bag EXCEPT !.error = "export"]
                  /\ uiErrors' = uiErrors + 1

\* The export step's Run, returning action: the file at config.ExportPath is
\* created (or emptied) and Driver.Export of the handle under container_id
\* writes into it. When the file cannot be created Export is not called.
\* When Export fails the file is removed, the error is recorded and reported
\* and the step halts.
StepExportRun(action) ==
    /\ bag.container_id # Nil
    /\ UNCHANGED containerId
    /\ \/ /\ action = "Halt"
          /\ bag' = [bag EXCEPT !.error = "create"]
          /\ uiErrors' = uiErrors + 1
          /\ UNCHANGED <<driver, exportFile>>
       \/ \E ok \in BOOLEAN, data \in ExportDatas :
             /\ driver' = [driver EXCEPT
                             !.export = Append(@, bag.container_id),
                             !.exportData = IF ok THEN data ELSE @,
                             !.trace = Append(@, "Export"),
                             !.failed = @ \cup (IF ok THEN {} ELSE {"export"})]
             /\ IF ok
                THEN /\ action = "Continue"
                     /\ exportFile' = data
                     /\ UNCHANGED <<bag, uiErrors>>
                ELSE /\ action = "Halt"
                     /\ exportFile' = Nil
                     /\ bag' = [bag EXCEPT !.error = "export"]
                     /\ uiErrors' = uiErrors + 1

\* The export step's Cleanup does nothing.
StepExportCleanup == UNCHANGED <<bag, containerId, driver, uiErrors>>

\* A step that is not the builder's own (provisioning): it continues, or
\* records an error and halts.
StepOtherRun(action) ==
    /\ UNCHANGED <<containerId, driver>>
    /\ \E ok \in BOOLEAN :
          IF ok
          THEN action = "Continue" /\ UNCHANGED <<bag, uiErrors>>
          ELSE /\ action = "Halt"
               /\ bag' = [bag EXCEPT !.error = "other"]
               /\ uiErrors' = uiErrors + 1

\* Its Cleanup, which may fail.
StepOtherCleanup == UNCHANGED <<bag, containerId, driver, uiErrors>>

\* The runner after step idx's Run returned action: on Continue the next
\* step runs; on Halt, or after the last step, cleanup starts at step idx.
RunnerAfterRun(name, action) ==
    /\ runLog' = Append(runLog, name)
    /\ actions' = Append(actions, action)
    /\ IF action = "Halt" \/ idx = Len(steps)
       THEN runnerPc' = "cleanup" /\ cidx' = idx /\ idx' = idx
       ELSE runnerPc' = "run" /\ idx' = idx + 1 /\ cidx' = cidx
    /\ UNCHANGED <<steps, config, cleanupLog, cleanupErrs>>

\* RunnerAfterCleanup with a bug: a failed Cleanup ends the cleanup.
RunnerAfterCleanup_StopsOnFailure(failed) ==
    /\ cleanupLog' = Append(cleanupLog, cidx)
    /\ cleanupErrs' = (IF failed THEN cleanupErrs \cup {cidx} ELSE cleanupErrs)
    /\ cidx' = cidx - 1
    /\ runnerPc' = (IF cidx = 1 \/ failed THEN "done" ELSE "cleanup")
    /\ UNCHANGED <<steps, config, idx, runLog, actions>>

\* The runner after step cidx's Cleanup: whether or not it failed, the
\* Cleanup of the step before it is next.
RunnerAfterCleanup(failed) ==
    /\ cleanupLog' = Append(cleanupLog, cidx)
    /\ cleanupErrs' = (IF failed THEN cleanupErrs \cup {cidx} ELSE cleanupErrs)
    /\ cidx' = cidx - 1
    /\ runnerPc' = (IF cidx = 1 THEN "done" ELSE "cleanup")
    /\ UNCHANGED <<steps, config, idx, runLog, actions>>

Running(name) == runnerPc = "run" /\ steps[idx] = name
Cleaning(name) == runnerPc = "cleanup" /\ steps[cidx] = name

RunPull ==
    /\ Running("Pull")
    /\ \E action \in {"Continue", "Halt"} :
          StepPullRun(action) /\ RunnerAfterRun("Pull", action)
    /\ UNCHANGED <<commVars, prepVars, xferVars, exportFile>>

RunRun ==
    /\ Running("Run")
    /\ \E action \in {"Continue", "Halt"} :
          StepRunRun(action) /\ RunnerAfterRun("Run", action)
    /\ UNCHANGED <<commVars, prepVars, xferVars, exportFile>>

RunConnect ==
    /\ Running("Connect")
    /\ \E action \in {"Continue", "Halt"} :
          StepConnectRun(action) /\ RunnerAfterRun("Connect", action)
    /\ UNCHANGED <<commVars, prepVars, xferVars, exportFile>>

RunExport ==
    /\ Running("Export")
    /\ \E action \in {"Continue", "Halt"} :
          StepExportRun(action) /\ RunnerAfterRun("Export", action)
    /\ UNCHANGED <<commVars, prepVars, xferVars>>

RunOther ==
    /\ Running("Other")
    /\ \E action \in {"Continue", "Halt"} :
          StepOtherRun(action) /\ RunnerAfterRun("Other", action)
    /\ UNCHANGED <<commVars, prepVars, xferVars, exportFile>>

CleanupPull ==
    /\ Cleaning("Pull")
    /\ StepPullCleanup
    /\ RunnerAfterCleanup(FALSE)
    /\ UNCHANGED <<commVars, prepVars, xferVars, exportFile>>

CleanupRun ==
    /\ Cleaning("Run")
    /\ \E killFailed \in BOOLEAN :
          StepRunCleanup(killFailed) /\ RunnerAfterCleanup(FALSE)
    /\ UNCHANGED <<commVars, prepVars, xferVars, exportFile>>

CleanupConnect ==
    /\ Cleaning("Connect")
    /\ StepConnectCleanup
    /\ RunnerAfterCleanup(FALSE)
    /\ UNCHANGED <<commVars, prepVars, xferVars, exportFile>>

CleanupExport ==
    /\ Cleaning("Export")
    /\ StepExportCleanup
    /\ RunnerAfterCleanup(FALSE)
    /\ UNCHANGED <<commVars, prepVars, xferVars, exportFile>>

CleanupOther ==
    /\ Cleaning("Other")
    /\ StepOtherCleanup
    /\ \E failed \in BOOLEAN : RunnerAfterCleanup(failed)
    /\ UNCHANGED <<commVars, prepVars, xferVars, exportFile>>

NextPipe ==
    \/ RunPull
    \/ RunRun
    \/ RunConnect
    \/ RunExport
    \/ RunOther
    \/ CleanupPull
    \/ CleanupRun
    \/ CleanupConnect
    \/ CleanupExport
    \/ CleanupOther

\* ------------------------------------------- the steps called one by one

\* A caller other than the runner (a test, say) holds one StepPull, one
\* StepRun and one StepConnectPodman and calls their methods in any order on
\* a bag of its own making, in which any of the keys the steps read may be
\* missing or hold a value of another type.
InitSteps ==
    /\ steps = <<>>
    /\ config \in [Pull : BOOLEAN, Login : BOOLEAN]
    /\ runnerPc = "direct"
    /\ idx = 0
    /\ cidx = 0
    /\ runLog = <<>>
    /\ actions = <<>>
    /\ cleanupLog = <<>>
    /\ cleanupErrs = {}
    /\ bag \in [ui : Prereq, config : Prereq, driver : Prereq,
                temp_dir : Prereq, error : {Nil},
                container_id : {Nil, WrongType, "c0"},
                instance_id : {Nil}, communicator : {Nil}]
    /\ containerId = ""
    /\ driver = NoCalls
    /\ uiErrors = 0
    /\ exportFile = Nil

\* The caller after a call returned action; a panic ends the process.
DirectAfter(name, action) ==
    /\ runLog' = Append(runLog, name)
    /\ actions' = Append(actions, action)
    /\ runnerPc' = (IF action = "Panic" THEN "crashed" ELSE "direct")
    /\ UNCHANGED <<steps, config, idx, cidx, cleanupLog, cleanupErrs>>

CanCall == runnerPc = "direct" /\ Len(runLog) < MaxStepCalls

CallPullRun ==
    /\ CanCall
    /\ \E action \in {"Continue", "Halt", "Panic"} :
          StepPullRun(action) /\ DirectAfter("Pull", action)
    /\ UNCHANGED <<commVars, prepVars, xferVars, exportFile>>

CallRunRun ==
    /\ CanCall
    /\ \E action \in {"Continue", "Halt", "Panic"} :
          StepRunRun(action) /\ DirectAfter("Run", action)
    /\ UNCHANGED <<commVars, prepVars, xferVars, exportFile>>

CallConnectRun ==
    /\ CanCall
    /\ \E action \in {"Continue", "Halt", "Panic"} :
          StepConnectRun(action) /\ DirectAfter("Connect", action)
    /\ UNCHANGED <<commVars, prepVars, xferVars, exportFile>>

CallRunCleanup ==
    /\ CanCall
    /\ \E killFailed \in BOOLEAN :
          StepRunCleanup(killFailed) /\ DirectAfter("Run.Cleanup", "Returned")
    /\ UNCHANGED <<commVars, prepVars, xferVars, exportFile>>

NextSteps ==
    \/ CallPullRun
    \/ CallRunRun
    \/ CallConnectRun
    \/ CallRunCleanup

\* --------------------------------------------------------- specifications

\* ----------------------------------------------------------- Config.Prepare

\* The error values of config.go.
errArtifactNotUsed == "errArtifactNotUsed"
errArtifactUseConflict == "errArtifactUseConflict"
errExportPathNotFile == "errExportPathNotFile"
errImageNotSpecified == "errImageNotSpecified"

\* What export_path may be: not given, or a path at which os.Stat finds
\* nothing, a file or a directory.
ExportPaths == {"", "new", "file", "dir"}
\* The raw configuration, as far as Prepare looks at it: whether
\* config.Decode accepts it, whether Comm.Prepare finds errors, and the
\* decoded fields.
RawConfigs ==
    [decodes : BOOLEAN, commErrs : BOOLEAN, Image : {"", "img"},
     Commit : BOOLEAN, Discard : BOOLEAN, ExportPath : ExportPaths]
NotPrepared == [called |-> FALSE, err |-> <<>>]

\* ArtifactConflict with a bug: commit together with discard is accepted.
ArtifactConflict_MissesCommitDiscard(c) ==
    \/ (c.ExportPath # "" /\ c.Commit)
    \/ (c.ExportPath # "" /\ c.Discard)

\* Prepare: the condition under which errArtifactUseConflict is appended.
ArtifactConflict(c) ==
    \/ (c.ExportPath # "" /\ c.Commit)
    \/ (c.ExportPath # "" /\ c.Discard)
    \/ (c.Commit /\ c.Discard)

\* Prepare: the condition under which errArtifactNotUsed is appended.
ArtifactNotUsed(c) == c.ExportPath = "" /\ ~c.Commit /\ ~c.Discard

\* Prepare: the error it returns, as the sequence of the errors appended to
\* the MultiError (empty for nil). An error of config.Decode is returned
\* alone, before any of the checks.
Prepare(c) ==
    IF ~c.decodes THEN <<"decode">>
    ELSE (IF c.commErrs THEN <<"comm">> ELSE <<>>)
         \o (IF c.Image = "" THEN <<errImageNotSpecified>> ELSE <<>>)
         \o (IF ArtifactConflict(c) THEN <<errArtifactUseConflict>> ELSE <<>>)
         \o (IF ArtifactNotUsed(c) THEN <<errArtifactNotUsed>> ELSE <<>>)
         \o (IF c.ExportPath = "dir" THEN <<errExportPathNotFile>> ELSE <<>>)

InitPrepareIdle ==
    /\ raws = [decodes |-> TRUE, commErrs |-> FALSE, Image |-> "img",
               Commit |-> TRUE, Discard |-> FALSE, ExportPath |-> ""]
    /\ prepared = NotPrepared

\* The builder is given some raw configuration.
InitPrepare ==
    /\ raws \in RawConfigs
    /\ prepared = NotPrepared

\* The builder calls Config.Prepare.
ConfigPrepare ==
    /\ ~prepared.called
    /\ prepared' = [called |-> TRUE, err |-> Prepare(raws)]
    /\ UNCHANGED <<raws, commVars, xferVars, pipeVars>>

NextPrepare == ConfigPrepare

InitCommSpec ==
    InitComm /\ InitXfer /\ InitCopyIdle /\ InitPipeIdle /\ InitPrepareIdle
InitPipeSpec ==
    InitComm /\ InitXfer /\ InitCopyIdle /\ InitPipe /\ InitPrepareIdle
InitStepsSpec ==
    InitComm /\ InitXfer /\ InitCopyIdle /\ InitSteps /\ InitPrepareIdle
InitCopySpec ==
    InitComm /\ InitXfer /\ InitCopy /\ InitPipeIdle /\ InitPrepareIdle
InitOwnerSpec ==
    InitComm /\ InitXfer /\ InitOwner /\ InitPipeIdle /\ InitPrepareIdle
InitPrepareSpec ==
    InitComm /\ InitXfer /\ InitCopyIdle /\ InitPipeIdle /\ InitPrepare

\* Remote commands on one Communicator.
SpecComm == InitCommSpec /\ [][NextComm]_vars

\* Remote commands whose processes write all their output and then end,
\* under a fair scheduler.
SpecLive == InitCommSpec /\ [][NextLive]_vars /\ FairLive

\* Remote commands and file transfers on one Communicator.
SpecTransfer == InitCommSpec /\ [][NextComm \/ NextXfer]_vars

\* One build: the runner drives a pipeline of steps.
SpecPipe == InitPipeSpec /\ [][NextPipe]_vars

\* The steps' methods called directly.
SpecSteps == InitStepsSpec /\ [][NextSteps]_vars

\* The transfers called one after the other, with their data.
SpecCopy == InitCopySpec /\ [][NextCopy]_vars

\* The transfers through a Communicator of any ownership configuration.
SpecOwner == InitOwnerSpec /\ [][NextCopy]_vars

\* Config.Prepare applied to a raw configuration.
SpecPrepare == InitPrepareSpec /\ [][NextPrepare]_vars

\* ------------------------------------------------------------------ claims

\* A command whose engine exec process was spawned and whose run has not
\* returned yet (run's return forgets the process).
Spawned(c) == proc[c].state # "none"
\* A command between "process spawned" and "wait completed and exit status
\* published".
InFlight(c) == proc[c].state \in {"running", "exited"}
Published(c) == Len(exits[c]) > 0

\* C1: at most one command is between the spawn of its process and the
\* publication of its exit status, and a command's process is spawned, waited
\* for and published only while its run holds Communicator.lock: the next
\* command's process is not spawned before the lock is released.
C1_Serialized ==
    /\ Cardinality({c \in Cmds : InFlight(c)}) <= 1
    /\ \A c \in Cmds : Spawned(c) => lock = c
    /\ \A c, d \in Cmds : (c # d /\ Spawned(c)) => ~Spawned(d)

\* C1 witness: one command's process runs while another command, whose Start
\* has returned nil, waits for the lock.
C1_Witness ==
    \E c, d \in Cmds :
        /\ c # d
        /\ proc[c].state = "running"
        /\ startRet[d] = "nil"
        /\ pc[d] = "lock"

\* C2 (the claim as stated): the engine copy subprocess of Upload, UploadDir
\* or Download and the engine exec subprocess of a remote command never run
\* at the same time.
C2_NoOverlap ==
    ~(copyProc = "running" /\ \E c \in Cmds : proc[c].state = "running")

\* C3: the exit status of a command is published at most once, it has been
\* published exactly once when run is about to return or has returned, on the
\* failed-spawn path too (with 254), and it is not published before.
C3_ExitedOnce ==
    \A c \in Cmds :
        /\ Len(exits[c]) <= 1
        /\ pc[c] \in {"unlock", "done"} => (startRet[c] = "nil" /\ Len(exits[c]) = 1)
        /\ proc[c].state = "spawnfail" => exits[c] = <<SpawnFailedStatus>>
        /\ pc[c] \notin {"unlock", "done"} => exits[c] = <<>>

\* C3 witness: one run has returned after a failed spawn with 254 published
\* once, another after waiting for its process with one status published.
C3_Witness ==
    \E c, d \in Cmds :
        /\ pc[c] = "done" /\ exits[c] = <<SpawnFailedStatus>>
        /\ pc[d] = "unlock" /\ proc[d].state = "reaped" /\ Len(exits[d]) = 1

\* C4 (the claim as stated): the published status is 0 if and only if the
\* wait succeeded and the process exited normally with code 0; a nonzero
\* code, a signal or any other error of the wait never publishes 0.
C4_ZeroIffNormalExit ==
    \A c \in Cmds :
        (pc[c] = "unlock" /\ proc[c].state # "spawnfail") =>
            (exits[c][1] = 0 <=>
                (proc[c].state = "reaped"
                 /\ proc[c].res = [kind |-> "exit", code |-> 0]))

\* C5: the copy goroutines of the captured streams exist while the process
\* runs (they are started before it is spawned), and when the exit status of
\* a spawned process is published every captured stream's copy goroutine has
\* reached EOF and ended, the process has ended, and no byte it wrote to a
\* captured stream is missing from the caller's sink.
C5_OutputBeforeExit ==
    \A c \in Cmds : \A s \in Streams :
        /\ (proc[c].state = "running" /\ Wants(c, s)) => copyTask[c][s] = "copying"
        /\ (Published(c) /\ proc[c].state \in {"reaped", "waitfailed"} /\ Wants(c, s)) =>
               /\ copyTask[c][s] = "none"
               /\ wg[c] = 0
               /\ undelivered[c][s] = 0
               /\ pipe[c][s] = 0

\* C5 witness: a status is published for a process that wrote more than a
\* pipe holds to stdout, and wrote to stderr, both captured and delivered.
C5_Witness ==
    \E c \in Cmds :
        /\ Published(c)
        /\ proc[c].state = "reaped"
        /\ remote[c].stdout /\ remote[c].stderr
        /\ copied[c]["stdout"] > PipeCap
        /\ copied[c]["stderr"] > 0

\* C6: a caller inside Start can always return, whatever the state of the
\* lock, and Start's return leaves the lock as it is.
C6_StartNeverBlocks ==
    /\ [](\A c \in Cmds : startRet[c] = "called" => ENABLED StartReturn(c))
    /\ [][\A c \in Cmds : (startRet[c] = "called" /\ startRet'[c] # "called")
                              => lock' = lock]_vars

\* C6 witness: a caller is inside Start while another command's run holds the
\* lock and its process is running.
C6_Witness ==
    \E c, d \in Cmds :
        /\ startRet[c] = "called"
        /\ lock = d
        /\ proc[d].state = "running"

\* C7 (the claim as stated): every launch failure, a failed pipe set-up or a
\* failed spawn of the engine exec subprocess, is returned by Start.
C7_LaunchFailureReturned ==
    \A c \in Cmds :
        (pipeFailed[c] \/ proc[c].state = "spawnfail") => startRet[c] = "err"

\* C7 amended: a failed pipe set-up is returned by Start, and then no run is
\* started and nothing is published; a failed spawn happens in run after
\* Start returned nil and is reported through the exit-status cell, as 254.
C7_PipeFailureReturned ==
    \A c \in Cmds :
        /\ pipeFailed[c] =>
              (startRet[c] = "err" /\ pc[c] = "none" /\ exits[c] = <<>>
               /\ proc[c].state = "none")
        /\ startRet[c] = "err" => pipeFailed[c]
        /\ proc[c].state = "spawnfail" =>
              (startRet[c] = "nil" /\ exits[c] = <<SpawnFailedStatus>>)

\* C7 witness: Start returned an error for one command, and another command,
\* for which Start returned nil, failed to spawn.
C7_Witness ==
    \E c, d \in Cmds :
        /\ pipeFailed[c] /\ startRet[c] = "err"
        /\ proc[d].state = "spawnfail" /\ startRet[d] = "nil"

\* The index of the step whose Run returned Halt, or 0.
HaltedAt ==
    IF \E i \in 1..Len(actions) : actions[i] = "Halt"
    THEN CHOOSE i \in 1..Len(actions) :
             actions[i] = "Halt" /\ \A j \in 1..(i - 1) : actions[j] # "Halt"
    ELSE 0
\* <<n, n-1, ..., 1>>
Downto(n) == [k \in 1..n |-> n - k + 1]
IsPrefix(s, u) == Len(s) <= Len(u) /\ \A k \in 1..Len(s) : s[k] = u[k]

\* C8: after step i returned Halt the Cleanups invoked are those of steps
\* i, i-1, ..., 1 in that order, each once, and all of them once the runner
\* is done, whether or not a Cleanup failed.
C8_ReverseCleanup ==
    HaltedAt # 0 =>
        /\ IsPrefix(cleanupLog, Downto(HaltedAt))
        /\ runnerPc = "done" => cleanupLog = Downto(HaltedAt)
        /\ runnerPc = "cleanup" => cidx = HaltedAt - Len(cleanupLog)

\* C8 witness: the runner is done after a Halt at a step past the second,
\* and the Cleanup of a step that is not the first failed.
C8_Witness ==
    /\ runnerPc = "done"
    /\ HaltedAt >= 3
    /\ \E k \in cleanupErrs : k > 1
    /\ cleanupLog = Downto(HaltedAt)

\* The step that records each error value.
ErrStep(e) ==
    CASE e \in {"login", "pull"} -> "Pull"
      [] e = "start" -> "Run"
      [] e \in {"version", "inspect"} -> "Connect"
      [] e \in {"export", "create"} -> "Export"
      [] OTHER -> "Other"
Ran(name) == \E i \in 1..Len(runLog) : runLog[i] = name

\* C9: the step that returned Halt is the last whose Run was executed and it
\* has recorded an error; the step that recorded the error is the last whose
\* Run was executed; the export step never runs after a failure in the pull,
\* run or connect step.
C9_NoRunAfterHalt ==
    /\ HaltedAt # 0 => (Len(runLog) = HaltedAt /\ bag.error # Nil)
    /\ bag.error # Nil => runLog[Len(runLog)] = ErrStep(bag.error)
    /\ driver.failed \cap {"login", "pull", "start", "version"} # {} => ~Ran("Export")
    /\ bag.error \in {"login", "pull", "start", "version", "inspect"} => ~Ran("Export")

\* C9 witness: the build pipeline is done after the run step halted; the
\* steps executed are pull and run.
C9_Witness ==
    /\ steps = BuildPipeline
    /\ runnerPc = "done"
    /\ bag.error = "start"
    /\ runLog = <<"Pull", "Run">>

\* The scenario of C10: the pipeline [Run, Export, other step] is done,
\* StartContainer returned "c1" and Export failed.
ExportFailedScenario ==
    /\ steps = ExportSecondPipeline
    /\ runnerPc = "done"
    /\ driver.started = <<"c1">>
    /\ "export" \in driver.failed

\* C10 (the claim as stated): then the bag holds an error, the bag's
\* container_id is the empty string, the driver was asked to kill exactly
\* once, "c1", and the third step's Run was not executed.
C10_BagHandleCleared ==
    ExportFailedScenario =>
        /\ bag.error # Nil
        /\ bag.container_id = ""
        /\ driver.kill = <<"c1">>
        /\ ~Ran("Other")

\* C10 amended: then the bag holds an error, the bag's container_id is still
\* "c1" while the handle the run step recorded for itself is the empty
\* string, the driver was asked to kill exactly once, "c1", and the third
\* step's Run was not executed.
C10_StepHandleCleared ==
    ExportFailedScenario =>
        /\ bag.error # Nil
        /\ bag.container_id = "c1"
        /\ containerId = ""
        /\ driver.kill = <<"c1">>
        /\ runLog = <<"Run", "Export">>

\* C10 witness: the scenario, with the cleanups of export and run invoked.
C10_Witness ==
    /\ ExportFailedScenario
    /\ cleanupLog = <<2, 1>>

\* A call of the named method returns in this step.
Returns(name) == Len(runLog') = Len(runLog) + 1 /\ Last(runLog') = name
\* The entries of the driver's trace that are name.
TraceCount(name) ==
    Cardinality({i \in 1..Len(driver.trace) : driver.trace[i] = name})

\* C11: over any sequence of Run and Cleanup calls on one StepRun,
\* KillContainer is not called when no container was started, each started
\* handle is killed at most once however often Cleanup is called, a handle
\* is recorded only while the bag holds the driver and the ui, and the
\* recorded handle is empty after a Cleanup; a Cleanup returns to its caller
\* and changes neither the bag nor the ui's error count, also when
\* KillContainer returns an error.
C11_CleanupIdempotent ==
    /\ [](/\ driver.started = <<>> => driver.kill = <<>>
          /\ \A i, j \in 1..Len(driver.kill) :
                 driver.kill[i] = driver.kill[j] => i = j
          /\ \A i \in 1..Len(driver.kill) :
                 \E j \in 1..Len(driver.started) : driver.started[j] = driver.kill[i]
          /\ containerId # "" => (bag.driver = "ok" /\ bag.ui = "ok")
          /\ (runLog # <<>> /\ Last(runLog) = "Run.Cleanup") => containerId = "")
    /\ [][Returns("Run.Cleanup") =>
             /\ bag' = bag
             /\ uiErrors' = uiErrors
             /\ runnerPc' = "direct"
             /\ containerId = "" => driver' = driver]_vars

\* C11 witness: Run started "c1", the first Cleanup's KillContainer returned
\* an error, and a second Cleanup was called.
C11_Witness ==
    /\ runLog = <<"Run", "Run.Cleanup", "Run.Cleanup">>
    /\ driver.started = <<"c1">>
    /\ driver.kill = <<"c1">>
    /\ "kill" \in driver.failed
    /\ containerId = ""
    /\ bag.error = Nil

\* C12: in the Pull step every successful Login is followed by exactly one
\* Logout before Run returns, whether Pull succeeds or fails, with the Pull
\* between them; and Logout is called only after a successful Login of the
\* same Run.
C12_LogoutAfterLogin ==
    /\ driver.logout = driver.loggedIn
    /\ driver.loggedIn <= driver.login
    /\ TraceCount("Logout") = driver.logout
    /\ TraceCount("Login") = driver.login
    /\ "login" \in driver.failed => driver.loggedIn < driver.login
    /\ \A i \in 1..Len(driver.trace) :
           driver.trace[i] = "Logout" =>
               /\ i >= 3
               /\ driver.trace[i - 1] = "Pull"
               /\ driver.trace[i - 2] = "Login"

\* C12 witness: with login and pull enabled, Login succeeded, Pull failed
\* and Logout was called once.
C12_Witness ==
    /\ config.Pull /\ config.Login
    /\ runLog = <<"Pull">>
    /\ actions = <<"Halt">>
    /\ "pull" \in driver.failed
    /\ driver.trace = <<"Login", "Pull", "Logout">>

\* C13: once the Pull step has run, Pull was invoked iff pulling is enabled
\* and (login is not configured or Login succeeded); with pulling disabled
\* the step returned Continue without a driver call and without an error;
\* after a failed Login the step recorded an error, reported it, returned
\* Halt and called neither Pull nor Logout.
C13_PullIffEnabledAndLoggedIn ==
    Ran("Pull") =>
        /\ driver.pull = 1 <=>
               (config.Pull /\ (~config.Login \/ driver.loggedIn = 1))
        /\ driver.pull <= 1
        /\ ~config.Pull =>
               /\ actions[1] = "Continue"
               /\ driver.login = 0 /\ driver.pull = 0 /\ driver.logout = 0
               /\ Len(runLog) = 1 => (bag.error = Nil /\ uiErrors = 0)
        /\ "login" \in driver.failed =>
               /\ actions = <<"Halt">>
               /\ bag.error = "login"
               /\ uiErrors = 1
               /\ driver.trace = <<"Login">>
               /\ driver.pull = 0 /\ driver.logout = 0

\* C13 witness: Login failed in the Pull step and the runner is done.
C13_Witness ==
    /\ runnerPc = "done"
    /\ config.Pull /\ config.Login
    /\ "login" \in driver.failed
    /\ runLog = <<"Pull">>

\* C14 (the claim as stated): a Run of the Pull, Run or Connect step returns
\* Halt iff it wrote the bag's error during the call, and on every Halt the
\* step has reported the error to the ui before returning.
C14_HaltIffErrorAndUi ==
    [][\A name \in {"Pull", "Run", "Connect"} :
          Returns(name) =>
              /\ Last(actions') = "Halt" <=> bag'.error # bag.error
              /\ Last(actions') = "Halt" => uiErrors' > uiErrors]_vars

\* The keys a step's Run reads from the bag on the path it takes.
KeyNotOk(name) ==
    CASE name = "Pull" ->
            \/ bag.ui # "ok"
            \/ bag.config # "ok"
            \/ (config.Pull /\ bag.driver # "ok")
      [] name = "Run" ->
            \/ bag.ui # "ok"
            \/ bag.config # "ok"
            \/ bag.temp_dir # "ok"
            \/ bag.driver # "ok"
      [] name = "Connect" ->
            \/ bag.config # "ok"
            \/ bag.container_id \in {Nil, WrongType}
            \/ bag.driver # "ok"
            \/ bag.temp_dir # "ok"

\* C15 (the claim as stated): when a key the step reads is missing from the
\* bag or holds a value of another type, Run returns Halt with an error
\* recorded.
C15_HaltOnBadKey ==
    [][\A name \in {"Pull", "Run", "Connect"} :
          (Returns(name) /\ KeyNotOk(name)) =>
              (Last(actions') = "Halt" /\ bag'.error # Nil)]_vars

\* C16: the handle StepRun has recorded is the one under container_id and
\* under instance_id, and the last one StartContainer returned; instance_id
\* is written iff a container was started, and then container_id holds the
\* same handle; a Run that halts records an error and leaves both keys as
\* they were; a Cleanup that kills, kills the handle under container_id.
C16_BothKeysSameHandle ==
    /\ [](/\ containerId # "" =>
                /\ bag.container_id = containerId
                /\ bag.instance_id = containerId
                /\ containerId = Last(driver.started)
          /\ bag.instance_id = Nil <=> driver.started = <<>>
          /\ bag.instance_id # Nil =>
                /\ bag.instance_id = bag.container_id
                /\ bag.instance_id = Last(driver.started))
    /\ [][Returns("Run") =>
             IF Last(actions') = "Continue"
             THEN /\ Len(driver'.started) = Len(driver.started) + 1
                  /\ bag'.container_id = Last(driver'.started)
                  /\ bag'.instance_id = Last(driver'.started)
                  /\ containerId' = Last(driver'.started)
             ELSE /\ bag'.container_id = bag.container_id
                  /\ bag'.instance_id = bag.instance_id
                  /\ containerId' = containerId
                  /\ driver'.started = driver.started
                  /\ Last(actions') = "Halt" => bag'.error # Nil]_vars
    /\ [][(Returns("Run.Cleanup") /\ driver'.kill # driver.kill) =>
             Last(driver'.kill) = bag.container_id]_vars

\* C16 witness: Run put "c1" under both keys although container_id held
\* another value before, and Cleanup killed "c1".
C16_Witness ==
    /\ runLog = <<"Connect", "Run", "Run.Cleanup">>
    /\ actions[1] = "Continue"
    /\ bag.communicator = "c0"
    /\ bag.container_id = "c1"
    /\ bag.instance_id = "c1"
    /\ driver.kill = <<"c1">>

\* The step is a return of the named transfer.
Did(op) == xfer'.op = op /\ nOps' # nOps

\* C17: an Upload that returns nil, with a FileInfo or without one, started
\* the engine with the archive on stdin and <container>:dir(dst) as the
\* destination, and changed the container's tree in one place only: the
\* node base(dst) of dir(dst), which is dst, is now a file holding the
\* uploaded bytes. An Upload with nothing going wrong around it, a size that
\* is the content's and a destination in an existing directory that is not
\* itself a directory, returns nil. A Download of the same path right after
\* such an Upload writes exactly the uploaded bytes when it returns nil, and
\* returns nil when nothing goes wrong around it.
C17_RoundTrip ==
    [][/\ (Did("Upload") /\ xfer'.err = "nil") =>
              LET dst == xfer'.path
                  n == EnginePath(Target(ContainerID, Dir(dst))) \o <<Base(dst)>>
              IN /\ xfer'.cmd = [src |-> <<"-">>,
                                 dst |-> Target(ContainerID, Dir(dst))]
                 /\ n = Components(dst)
                 /\ fs' = Put(fs, n, File(payload))
       /\ (/\ Did("Upload")
           /\ xfer'.fail = "none"
           /\ (meta.nil \/ meta.size = Len(payload))
           /\ IsDir(fs, Parent(Components(xfer'.path)))
           /\ ~IsDir(fs, Components(xfer'.path))) => xfer'.err = "nil"
       /\ (/\ xfer.op = "Upload" /\ xfer.err = "nil"
           /\ Did("Download")
           /\ xfer'.path = xfer.path) =>
              /\ xfer'.err = "nil" => xfer'.out = payload
              /\ xfer'.fail \in {"none", "pipe-full"} => xfer'.err = "nil"]_vars

\* C17 witness: a stream of one byte, uploaded without a FileInfo over the
\* existing file /d/f, was downloaded from /d/f.
C17_Witness ==
    /\ meta.nil
    /\ payload = <<1>>
    /\ nOps = 2
    /\ xfer.op = "Download"
    /\ xfer.path = <<Sep, "d", Sep, "f">>
    /\ xfer.err = "nil"
    /\ xfer.out = <<1>>
    /\ fs[<< <<"d">>, <<"f">> >>] = File(<<1>>)

\* C18: an UploadDir of a non-empty src that could start the engine passed
\* it src + "." as the source when src ends with the separator and src
\* itself otherwise, and always <container>:<dst> as the destination. When
\* it returns nil for a destination that was a directory, the host
\* directory's file is in the destination itself in the first case, and in
\* a directory named as the host directory below the destination in the
\* second.
C18_SourceArgument ==
    [][(Did("UploadDir") /\ xfer'.from # <<>>) =>
          LET src == xfer'.from
              dst == xfer'.path
              d == Components(dst)
              slash == src[Len(src)] = "/"
          IN /\ xfer'.fail # "start" =>
                    /\ xfer'.cmd.src = IF slash THEN src \o <<".">> ELSE src
                    /\ xfer'.cmd.dst = <<"c", "1", ":">> \o dst
             /\ xfer'.fail = "start" => xfer'.cmd = NoCmd
             /\ (xfer'.err = "nil" /\ IsDir(fs, d)) =>
                    IF slash
                    THEN fs' = Put(fs, d \o <<HostFileName>>, File(HostFileBody))
                    ELSE fs' = Put(Put(fs, d \o << <<"h">> >>, DirNode),
                                   d \o << <<"h">>, HostFileName >>,
                                   File(HostFileBody))]_vars

\* C18 witness: the host directory given as "/h/" was uploaded to the
\* existing directory /d, whose file f now is the host directory's.
C18_Witness ==
    /\ xfer.op = "UploadDir"
    /\ xfer.from = <<Sep, "h", Sep>>
    /\ xfer.path = <<Sep, "d">>
    /\ xfer.cmd.src = <<Sep, "h", Sep, ".">>
    /\ xfer.err = "nil"
    /\ fs[<< <<"d">>, <<"f">> >>] = File(HostFileBody)
    /\ << <<"d">>, <<"h">> >> \notin DOMAIN fs

\* C19: a Download that started the engine and got no archive entry from it
\* (the engine failed, or the source does not exist in the container)
\* returns an error and writes nothing to the caller's writer; the error
\* carries the engine's diagnostic whenever the engine wrote one and the
\* error stream could be read, and is the header-read error only when the
\* engine wrote none or the error stream could not be read. No Download
\* that got an entry returns either error.
C19_DiagnosticPreferred ==
    [][(Did("Download") /\ xfer'.fail # "start") =>
          LET missing == Components(xfer'.path) \notin DOMAIN fs
              noEntry == missing \/ xfer'.fail \in {"engine-silent", "engine-diag"}
              wrote == \/ xfer'.fail = "engine-diag"
                       \/ (missing /\ xfer'.fail # "engine-silent")
              readable == xfer'.fail # "stderr-read"
          IN /\ noEntry <=> xfer'.err \in {"diag", "header"}
             /\ noEntry => xfer'.out = <<>>
             /\ (noEntry /\ wrote /\ readable) =>
                    (xfer'.err = "diag" /\ xfer'.text = Diag)
             /\ xfer'.err = "header" => (~wrote \/ ~readable)
             /\ xfer'.err # "diag" => xfer'.text = <<>>]_vars

\* C19 witness: Download of /n, which is not in the container, returned the
\* engine's diagnostic.
C19_Witness ==
    /\ xfer.op = "Download"
    /\ xfer.path = <<Sep, "n">>
    /\ xfer.fail = "none"
    /\ xfer.err = "diag"
    /\ xfer.text = Diag
    /\ xfer.out = <<>>

\* C20 (the claim as stated): DownloadDir returns an error without starting
\* an engine command, and a Download whose source is a directory in the
\* container returns an error: it neither returns nil nor blocks.
C20_DirectoryDownloadFails ==
    [][/\ Did("DownloadDir") => (xfer'.err # "nil" /\ xfer'.cmd = NoCmd)
       /\ (Did("Download") /\ IsDir(fs, Components(xfer'.path))) =>
              xfer'.err \notin {"nil", "blocked"}]_vars

\* C21: a Run of the export step in which Driver.Export fails returns Halt,
\* has put a value under the bag's error key, and leaves no file at the
\* export path: not one that was missing before, and not the one it
\* created.
C21_FailedExportLeavesNoFile ==
    [][(Returns("Export") /\ "export" \in driver'.failed) =>
          /\ Last(actions') = "Halt"
          /\ bag'.error # Nil
          /\ bag.error = Nil
          /\ exportFile' = Nil
          /\ driver'.exportData = Nil]_vars

\* C21 witness: there was no file at the export path, Export of "c1" failed
\* and the build is over.
C21_Witness ==
    /\ runnerPc = "done"
    /\ steps = ExportSecondPipeline
    /\ runLog = <<"Run", "Export">>
    /\ actions = <<"Continue", "Halt">>
    /\ driver.export = <<"c1">>
    /\ "export" \in driver.failed
    /\ bag.error = "export"
    /\ exportFile = Nil

\* C22: a Run of the export step in which Driver.Export succeeds has called
\* Export once, for the handle under the bag's container_id, returns
\* Continue without touching the bag, and the file at the export path holds
\* exactly the bytes the driver wrote, whatever was there before.
C22_ExportWritesFile ==
    [][(Returns("Export") /\ driver'.export # driver.export
                          /\ "export" \notin driver'.failed) =>
          /\ driver'.export = Append(driver.export, bag.container_id)
          /\ bag.container_id = containerId
          /\ Last(actions') = "Continue"
          /\ bag' = bag
          /\ driver'.exportData \in ExportDatas
          /\ exportFile' = driver'.exportData]_vars

\* C22 witness: the export path held an empty file; after the whole build
\* pipeline it holds the two bytes the driver exported for "c2".
C22_Witness ==
    /\ steps = BuildPipeline
    /\ Len(runLog) = 5
    /\ Last(actions) = "Continue"
    /\ driver.export = <<"c2">>
    /\ driver.exportData = <<0, 1>>
    /\ exportFile = <<0, 1>>

\* How many of commit, discard and a non-empty export_path are specified.
ArtifactUses(c) ==
    (IF c.Commit THEN 1 ELSE 0) + (IF c.Discard THEN 1 ELSE 0)
        + (IF c.ExportPath # "" THEN 1 ELSE 0)
Reports(e) == \E i \in 1..Len(prepared.err) : prepared.err[i] = e

\* C23: Prepare returns nil only if exactly one of commit, discard and a
\* non-empty export_path is specified; for a configuration that decodes it
\* reports errArtifactUseConflict iff two or more of them are specified and
\* errArtifactNotUsed iff none is, so neither when exactly one is.
C23_ExactlyOneArtifactUse ==
    prepared.called =>
        /\ prepared.err = <<>> => ArtifactUses(raws) = 1
        /\ raws.decodes =>
              /\ Reports(errArtifactUseConflict) <=> ArtifactUses(raws) >= 2
              /\ Reports(errArtifactNotUsed) <=> ArtifactUses(raws) = 0
        /\ (/\ raws.decodes /\ ~raws.commErrs /\ raws.Image # ""
            /\ raws.ExportPath # "dir"
            /\ ArtifactUses(raws) = 1) => prepared.err = <<>>

\* C23 witness: commit and discard are both specified, without export_path,
\* and Prepare reported the conflict alone.
C23_Witness ==
    /\ prepared.called
    /\ raws.Commit /\ raws.Discard /\ raws.ExportPath = ""
    /\ prepared.err = <<errArtifactUseConflict>>

\* C24: a Download that got an archive from the engine has written to the
\* caller's writer exactly the body of the archive's first entry (the file's
\* bytes for a file, nothing for a directory, whatever the directory holds),
\* and it returns nil only when localCmd.Wait returned nil: not when the
\* engine could not be started, produced no archive or ended with a failure.
C24_FirstEntryBodyOnly ==
    [][Did("Download") =>
          LET n == Components(xfer'.path)
          IN /\ xfer'.err \in {"nil", "wait", "blocked"} =>
                    /\ n \in DOMAIN fs
                    /\ xfer'.out = IF IsFile(fs, n) THEN fs[n].body ELSE <<>>
             /\ xfer'.err = "nil" =>
                    /\ xfer'.fail \notin {"start", "engine-silent",
                                          "engine-diag", "wait"}
                    /\ xfer'.cmd = [src |-> Target(ContainerID, xfer'.path),
                                    dst |-> <<"-">>]
             /\ xfer'.fail = "wait" => xfer'.err # "nil"]_vars

\* C24 witness: Download of the directory /d, which holds the file f with a
\* byte in it, returned nil and wrote nothing.
C24_Witness ==
    /\ xfer.op = "Download"
    /\ xfer.path = <<Sep, "d">>
    /\ IsFile(fs, << <<"d">>, <<"f">> >>)
    /\ fs[<< <<"d">>, <<"f">> >>].body # <<>>
    /\ xfer.err = "nil"
    /\ xfer.out = <<>>

\* The engine copy of the upload that returned succeeded.
CopySucceeded(r) == r.err \in {"nil", "chown"}

\* C25: an Upload or UploadDir issued the chown command iff FixUploadOwner
\* is set and the engine copy succeeded; the command names the destination
\* path given to the upload and as owner the Communicator's ContainerUser,
\* or root when that is empty. With FixUploadOwner unset no command is
\* issued and the upload returns nil iff the copy succeeded. A chown that
\* fails makes the upload return an error, and one that succeeds leaves the
\* result nil.
C25_OwnerCorrection ==
    [][(Did("Upload") \/ (Did("UploadDir") /\ xfer'.from # <<>>)) =>
          /\ xfer'.chown.issued <=>
                 (ccfg.FixUploadOwner /\ CopySucceeded(xfer'))
          /\ xfer'.chown.issued =>
                 /\ xfer'.chown.path = xfer'.path
                 /\ xfer'.chown.owner =
                        (IF ccfg.ContainerUser = "" THEN "root" ELSE "u")
                 /\ xfer'.err = (IF xfer'.fail = "chown" THEN "chown" ELSE "nil")
          /\ ~ccfg.FixUploadOwner =>
                 /\ xfer'.chown = NoChown
                 /\ xfer'.err # "chown"]_vars

\* C25 witness: with FixUploadOwner set and ContainerUser "u", the copy of
\* an Upload to /d/f succeeded and the chown of /d/f to "u" failed.
C25_Witness ==
    /\ ccfg = [FixUploadOwner |-> TRUE, ContainerUser |-> "u"]
    /\ xfer.op = "Upload"
    /\ xfer.path = <<Sep, "d", Sep, "f">>
    /\ xfer.chown = [issued |-> TRUE, owner |-> "u",
                     path |-> <<Sep, "d", Sep, "f">>]
    /\ xfer.err = "chown"
    /\ fs[<< <<"d">>, <<"f">> >>] = File(payload)

\* C26: an Upload without a FileInfo that could create its temporary file
\* has removed it when it returns, whatever it returns; the file upload it
\* performs carries the size of the bytes copied, so the archive is never
\* refused for its size; an Upload with a FileInfo creates no temporary
\* file.
C26_TempFileRemoved ==
    [][Did("Upload") =>
          /\ xfer'.temp # "left"
          /\ meta.nil => (xfer'.temp = "removed" <=> xfer'.fail # "tempfile")
          /\ meta.nil => xfer'.err \notin {"pipe-upload", "close-archive"}
          /\ (meta.nil /\ xfer'.err = "nil") =>
                 fs'[Components(xfer'.path)] = File(payload)
          /\ ~meta.nil => xfer'.temp = "none"]_vars

\* C26 witness: a stream was uploaded without a FileInfo, the engine failed,
\* and the temporary file is removed.
C26_Witness ==
    /\ meta.nil
    /\ payload # <<>>
    /\ xfer.op = "Upload"
    /\ xfer.fail = "engine"
    /\ xfer.err = "wait"
    /\ xfer.temp = "removed"

\* C27 (the claim as stated): every command for which Start returned nil,
\* whatever streams its caller supplies, eventually has its exit status
\* published and the Communicator's lock released by its run.
C27_EventuallyExited ==
    \A c \in Cmds :
        (startRet[c] = "nil") ~>
            (pc[c] = "done" /\ Len(exits[c]) = 1 /\ lock # c)

\* C28 (the claim as stated): when a transfer has returned, the engine copy
\* subprocess it started, if any, has been waited for.
C28_ReapedOnReturn ==
    xferPc = "returned" => copyProc \in {"none", "reaped"}

====
